---------------------------- MODULE Spec2Model ----------------------------
(***************************************************************************)
(* Model of the PoneglyphDB range/threshold gate (src/src/circuit/         *)
(* range_check.rs), its test circuit (src/tests/range_check_tests.rs) and  *)
(* the validation helpers.                                                 *)
(*                                                                         *)
(* Numbers.  TLC's integers are 32 bits wide, so a u64 is held as four     *)
(* 16-bit digits and an element of the Pallas base field Fr as sixteen     *)
(* 16-bit digits, both little-endian, with the arithmetic done digit by    *)
(* digit.  Every program constant (8 chunks, the 0xFF mask, the 0..255     *)
(* table, the field modulus) keeps its real value.                         *)
(***************************************************************************)
EXTENDS Integers, Sequences, FiniteSets, TLC

(***************************************************************************)
(* Multi-digit naturals                                                    *)
(***************************************************************************)
Radix == 2^16
\* A u64 has 64 / 16 digits, an element of Fr (255 bits) has 256 / 16.
U64Digits == 64 \div 16
FrDigits == 256 \div 16

\* A number is a tuple of digits, least significant first.  Tuples are built
\* explicitly, so that each result is a value and not a pending computation.
Tup4(f(_)) == <<f(1), f(2), f(3), f(4)>>
Tup16(f(_)) ==
    <<f(1), f(2), f(3), f(4), f(5), f(6), f(7), f(8),
      f(9), f(10), f(11), f(12), f(13), f(14), f(15), f(16)>>
Tup(f(_), n) == IF n = U64Digits THEN Tup4(f) ELSE Tup16(f)

\* The carry of a + b into digit k: the digit below generates it, or passes on
\* the carry it receives.
RECURSIVE CarryInto(_, _, _)
CarryInto(a, b, k) ==
    IF k = 1 THEN FALSE
    ELSE IF a[k - 1] + b[k - 1] >= Radix THEN TRUE
    ELSE IF a[k - 1] + b[k - 1] = Radix - 1 THEN CarryInto(a, b, k - 1)
    ELSE FALSE

\* The borrow of a - b from digit k; with k = Len(a) + 1, whether a < b.
RECURSIVE BorrowFrom(_, _, _)
BorrowFrom(a, b, k) ==
    IF k = 1 THEN FALSE
    ELSE IF a[k - 1] < b[k - 1] THEN TRUE
    ELSE IF a[k - 1] = b[k - 1] THEN BorrowFrom(a, b, k - 1)
    ELSE FALSE

NatLess(a, b) == BorrowFrom(a, b, Len(a) + 1)

\* a + b, the carry out of the top digit dropped.
NatAdd(a, b) ==
    LET dig(k) == (a[k] + b[k] + (IF CarryInto(a, b, k) THEN 1 ELSE 0)) % Radix
    IN  Tup(dig, Len(a))

\* a - b, the borrow out of the top digit dropped.
NatSub(a, b) ==
    LET dig(k) == (a[k] - b[k] - (IF BorrowFrom(a, b, k) THEN 1 ELSE 0) + Radix) % Radix
    IN  Tup(dig, Len(a))

(***************************************************************************)
(* u64                                                                     *)
(***************************************************************************)
U64Zero == <<0, 0, 0, 0>>
U64Max == <<Radix - 1, Radix - 1, Radix - 1, Radix - 1>>
\* The natural d < 2^16 as a u64.
U64(d) == <<d, 0, 0, 0>>

\* x_val < threshold on u64.
U64Lt(a, b) == NatLess(a, b)

\* v >> n on u64, for 0 <= n < 64.
U64Shr(v, n) ==
    LET off == n \div 16
        r == n % 16
        dig(k) == IF k > U64Digits THEN 0 ELSE v[k]
        out(k) == (dig(k + off) \div (2^r)) + (dig(k + off + 1) % (2^r)) * (2^(16 - r))
    IN  Tup4(out)

\* v << n on u64 (bits shifted out are lost), for 0 <= n < 64.
U64Shl(v, n) ==
    LET off == n \div 16
        r == n % 16
        dig(k) == IF k < 1 THEN 0 ELSE v[k]
        out(k) == ((dig(k - off) * (2^r)) % Radix) + (dig(k - off - 1) \div (2^(16 - r)))
    IN  Tup4(out)

\* Mutant: the mask 0x7F in place of 0xFF.
U64LowByte_mask7F(v) == v[1] % 128

\* (v & 0xFF) as u8: the low byte, a natural below 256.
U64LowByte(v) == v[1] % 256

\* a + b on u64: whether it overflows, and the sum when it does not.
U64AddOverflows(a, b) == CarryInto(a, b, U64Digits + 1)
U64Add(a, b) == NatAdd(a, b)

(***************************************************************************)
(* The field Fr (pasta_curves::pallas::Base)                               *)
(***************************************************************************)
\* p = 0x40000000000000000000000000000000224698fc094cf91b992d30ed00000001
FrModulus ==
    << 1, 0, 12525, 39213, 63771, 2380, 39164, 8774,
       0, 0, 0, 0, 0, 0, 0, 16384 >>

\* The natural d < 2^16 as a field element.
FrSmall(d) == <<d, 0, 0, 0, 0, 0, 0, 0, 0, 0, 0, 0, 0, 0, 0, 0>>
FrZero == FrSmall(0)
FrOne == FrSmall(1)

\* Fr::from(v: u64)
FrFromU64(v) ==
    LET dig(k) == IF k <= U64Digits THEN v[k] ELSE 0 IN Tup16(dig)

\* a + b mod p; a zero operand leaves the other unchanged.
FrAdd(a, b) ==
    IF a = FrZero THEN b
    ELSE IF b = FrZero THEN a
    ELSE LET s == NatAdd(a, b)
         IN  IF NatLess(s, FrModulus) THEN s ELSE NatSub(s, FrModulus)

\* a - b mod p.
FrSub(a, b) ==
    IF b = FrZero THEN a
    ELSE IF NatLess(a, b) THEN NatSub(NatAdd(a, FrModulus), b) ELSE NatSub(a, b)

RECURSIVE MulBits(_, _, _, _)
\* acc * 2^j + n * (the low j bits of the digit d), in Fr: double-and-add from
\* bit j - 1 down; a zero accumulator is not doubled.
MulBits(n, d, j, acc) ==
    IF j = 0 THEN acc
    ELSE IF acc = FrZero
         THEN MulBits(n, d, j - 1, IF (d \div 2^(j - 1)) % 2 = 1 THEN n ELSE FrZero)
         ELSE MulBits(n, d, j - 1,
                      IF (d \div 2^(j - 1)) % 2 = 1 THEN FrAdd(FrAdd(acc, acc), n)
                      ELSE FrAdd(acc, acc))

\* The number of bits of the digit d: the least j with d < 2^j.
BitLength(d) == CHOOSE j \in 0..16 : d < 2^j /\ (j = 0 \/ d >= 2^(j - 1))

RECURSIVE MulDigits(_, _, _, _)
\* acc * Radix^k + n * (the low k digits of m), in Fr; leading zero digits of m
\* and the leading zero bits of its first non-zero digit are passed over.
MulDigits(n, m, k, acc) ==
    IF k = 0 THEN acc
    ELSE IF acc = FrZero /\ m[k] = 0 THEN MulDigits(n, m, k - 1, FrZero)
    ELSE IF acc = FrZero THEN MulDigits(n, m, k - 1, MulBits(n, m[k], BitLength(m[k]), acc))
    ELSE MulDigits(n, m, k - 1, MulBits(n, m[k], 16, acc))

\* The index of the highest non-zero digit of a (0 when a = 0).
TopDigit(a) ==
    IF \A k \in 1..Len(a) : a[k] = 0 THEN 0
    ELSE CHOOSE k \in 1..Len(a) : a[k] # 0 /\ \A i \in (k + 1)..Len(a) : a[i] = 0

\* m * n in Fr; the bits of the operand with fewer digits drive the additions
\* of the other, from its highest non-zero digit down.
FrMul(m, n) ==
    IF TopDigit(n) < TopDigit(m) THEN MulDigits(m, n, TopDigit(n), FrZero)
    ELSE MulDigits(n, m, TopDigit(m), FrZero)

\* Whether a field element is the image of a natural below 2^16, and that natural.
FrIsSmall(a) == \A k \in 2..FrDigits : a[k] = 0
FrLow(a) == a[1]

\* Whether a field element is the image of a u64, and that u64.
FrIsU64(a) == \A k \in (U64Digits + 1)..FrDigits : a[k] = 0
FrToU64(a) == <<a[1], a[2], a[3], a[4]>>

(***************************************************************************)
(* Inputs                                                                  *)
(***************************************************************************)
\* 0x1234567890ABCDEF
Big == <<52719, 37035, 22136, 4660>>
\* u64::MAX / 2
Half == U64Shr(U64Max, 1)

\* The values and thresholds of the test circuits, and 100 for x = t.
Values == {U64(42), U64(100), U64(500), U64(1500), Big, U64Max}
Thresholds == {U64(100), U64(1000), Half}
\* Bounds u: below, at and above t - x for the pair (42, 100), at the size of
\* the lookup table, and threshold + 1000 as the test circuit computes it.
TestBound(t) == U64Add(t, U64(1000))
Bounds(t) == {U64(1), U64(58), U64(255), U64(256), U64(1000), TestBound(t)}

(***************************************************************************)
(* The constraint system (RangeCheckChip::configure)                       *)
(***************************************************************************)
\* Columns are <<kind, index>>; a cell is <<column, row>>.
chunk_columns == [i \in 0..7 |-> <<"advice", i>>]
check_column == <<"advice", 8>>
x_column == <<"advice", 9>>
diff_column == <<"advice", 8>>
threshold_column == <<"fixed", 0>>
u_column == <<"fixed", 1>>
selector == <<"selector", 0>>
less_than_selector == <<"selector", 1>>
decomposition_selector == <<"selector", 2>>
diff_lookup_selector == <<"selector", 3>>

AdviceColumns == {chunk_columns[i] : i \in 0..7} \cup {check_column, x_column}
Columns ==
    AdviceColumns \cup {threshold_column, u_column, selector, less_than_selector,
                        decomposition_selector, diff_lookup_selector}

VARIABLES
    value,        \* the circuit's value (v, x)
    threshold,    \* the circuit's threshold t
    u,            \* the bound u passed to check_less_than
    tableLoaded,  \* whether the 0..255 table has been loaded
    columns,      \* the floor planner's next free row of each column
    cells,        \* the assigned advice and fixed cells: cell -> Fr
    enabled,      \* the enabled selectors: a set of <<selector, row>>
    regions,      \* the regions assigned so far, in order
    forged,       \* advice cells a dishonest prover has replaced: cell -> Fr
    sort,         \* the sort gate's sequences, products and adjacent checks
    group_by,     \* the group-by gate's keys and boundary bits
    join,         \* the join gate's tables, match flags and output rows
    aggregation,  \* the aggregation gate's rows, accumulators and results
    calls,        \* the calls made to the helpers and entry points, with results
    previous,     \* what an earlier run on the same inputs assigned and found
    pending,      \* the operations the top-level circuit was built to hold
    running,      \* the region being assigned step by step, and its next step
    phase,        \* "synthesize", then "verified"
    failures      \* the verification failures found by the prover's check

vars == <<value, threshold, u, tableLoaded, columns, cells, enabled, regions,
          forged, sort, group_by, join, aggregation, calls, previous, pending, running, phase, failures>>

\* The variables the range gate and the sort gate never touch.
others == <<group_by, join, aggregation, calls, previous, pending, running>>

Max(S) == CHOOSE m \in S : \A n \in S : n <= m

\* SimpleFloorPlanner: a region starts at the first row that is free in every
\* column it uses, and takes those columns up to its last row.
\* Mutant: a floor planner that starts every region at the first row.
RegionStart_first_row(shape) == 0

\* Mutant: a floor planner that keeps a row of an earlier run.
RegionStart_carried(shape) ==
    Max({columns[c] : c \in shape}) + (IF previous.ran THEN 1 ELSE 0)

\* Mutant: a region starts on the last row in use, not after it.
RegionStart_last_used(shape) ==
    LET free == Max({columns[c] : c \in shape}) IN IF free = 0 THEN 0 ELSE free - 1

RegionStart(shape) == Max({columns[c] : c \in shape})
ColumnsAfter(shape, rowCount) ==
    [c \in Columns |-> IF c \in shape THEN RegionStart(shape) + rowCount ELSE columns[c]]

(***************************************************************************)
(* The sort gate (SortChip), after its contract: the input and the claimed  *)
(* output each accumulate a running product of (challenge + element), the  *)
(* two final products are constrained equal, and every adjacent output     *)
(* pair goes through the less-than check with threshold out[i+1] + 1.      *)
(***************************************************************************)
NoSort ==
    [assigned |-> FALSE, by_test |-> FALSE, input |-> <<>>, output |-> <<>>,
     challenge |-> FrZero, input_product |-> FrOne, output_product |-> FrOne,
     checks |-> <<>>]

\* The other gates before they are used, no call made, no earlier run.
NoGroupBy == [assigned |-> FALSE, group_keys |-> <<>>, boundaries |-> <<>>]
NoJoin ==
    [assigned |-> FALSE, table1_keys |-> <<>>, table1_values |-> <<>>,
     table2_keys |-> <<>>, table2_values |-> <<>>, flags |-> <<>>, matches |-> <<>>]
NoAggregation ==
    [assigned |-> FALSE, group_keys |-> <<>>, values |-> <<>>, agg_type |-> "sum",
     boundaries |-> <<>>, accumulators |-> <<>>, results |-> <<>>]
NoRun == [ran |-> FALSE]
NotRunning ==
    [name |-> "none", start |-> 0, rows |-> 0, steps |-> <<>>, step |-> 0,
     returns |-> <<>>, usable |-> 0]
OthersIdle ==
    /\ group_by = NoGroupBy
    /\ join = NoJoin
    /\ aggregation = NoAggregation
    /\ calls = <<>>
    /\ previous = NoRun
    /\ pending = <<>>
    /\ running = NotRunning

(***************************************************************************)
(* Synthesis                                                               *)
(***************************************************************************)
MaxRegions == 2

Init ==
    /\ value \in Values
    /\ threshold \in Thresholds
    /\ u \in Bounds(threshold)
    /\ tableLoaded = FALSE
    /\ columns = [c \in Columns |-> 0]
    /\ cells = <<>>
    /\ enabled = {}
    /\ regions = <<>>
    /\ forged = <<>>
    /\ sort = NoSort
    /\ OthersIdle
    /\ phase = "synthesize"
    /\ failures = {}

\* load_lookup_table: the table column receives 0..255.
LoadLookupTable ==
    /\ phase = "synthesize"
    /\ ~tableLoaded
    /\ tableLoaded' = TRUE
    /\ UNCHANGED <<others, value, threshold, u, columns, cells, enabled, regions, forged,
                   sort, phase, failures>>

\* Mutant: the shift i * 4 in place of i * 8.
decomposed_shift4(v) == [i \in 0..7 |-> U64LowByte(U64Shr(v, i * 4))]

\* The limbs computed by decompose_64bit: result[i] = ((v >> (i * 8)) & 0xFF) as u8.
decomposed(v) == [i \in 0..7 |-> U64LowByte(U64Shr(v, i * 8))]

DecomposeShape ==
    {chunk_columns[i] : i \in 0..7} \cup {selector, x_column, decomposition_selector}

\* The region of decompose_64bit(value): nine rows; chunk i at (chunk column i,
\* row i) with the lookup selector on that row, the value at (x_column, row 8)
\* with the decomposition selector.  Returns the eight chunk cells.
DecomposeRegion(limit) ==
    /\ phase = "synthesize"
    /\ Len(regions) < limit
    /\ LET start == RegionStart(DecomposeShape)
           value_row == start + 8
           chunks == [i \in 0..7 |-> <<chunk_columns[i], start + i>>]
           chunk_value == [c \in {chunks[i] : i \in 0..7} |->
                              FrFromU64(U64(decomposed(value)[c[1][2]]))]
       IN  /\ cells' = (<<x_column, value_row>> :> FrFromU64(value)) @@ chunk_value @@ cells
           /\ enabled' = enabled \cup {<<selector, start + i>> : i \in 0..7}
                                 \cup {<<decomposition_selector, value_row>>}
           /\ columns' = ColumnsAfter(DecomposeShape, 9)
           /\ regions' = Append(regions,
                  [name |-> "decompose 64bit", start |-> start, rows |-> 9,
                   assigned |-> {chunks[i] : i \in 0..7} \cup {<<x_column, value_row>>},
                   result |-> "Ok", cell |-> chunks])

\* decompose_64bit(value) called by a circuit.
Decompose64bit(limit) ==
    /\ DecomposeRegion(limit)
    /\ UNCHANGED <<others, value, threshold, u, tableLoaded, forged, sort, phase, failures>>

MaxRangeChecks == 1

\* The min and max a caller passes to check_range.
RangeLimits ==
    LET limit == {U64Zero, U64(100), U64(1000), U64Max}
    IN  {limits \in limit \X limit : ~U64Lt(limits[2], limits[1])}

\* check_range(value, _min, _max): decompose_64bit in the namespace "decompose",
\* then Ok(()); the two bounds are not used.
CheckRange(limit) ==
    \E limits \in RangeLimits :
        /\ DecomposeRegion(limit)
        /\ calls' = Append(calls, [op |-> "check_range", region |-> Len(regions) + 1,
                                   min |-> limits[1], max |-> limits[2], result |-> "Ok"])
        /\ UNCHANGED <<value, threshold, u, tableLoaded, forged, sort, group_by, join,
                       aggregation, previous, pending, running, phase, failures>>

\* Mutant: x <= threshold in place of x < threshold.
CheckValue_le(x, t) == IF ~U64Lt(t, x) THEN FrOne ELSE FrZero

\* The witness values computed by check_less_than.
CheckValue(x, t) == IF U64Lt(x, t) THEN FrOne ELSE FrZero
\* Mutant: the bound u is not added.
DiffValue_no_u(x, t, b) ==
    IF CheckValue(x, t) = FrOne THEN FrSub(FrFromU64(x), FrFromU64(t)) ELSE FrZero

DiffValue(x, t, b) ==
    IF CheckValue(x, t) = FrOne
    THEN FrAdd(FrSub(FrFromU64(x), FrFromU64(t)), FrFromU64(b))
    ELSE FrZero

\* Mutant: the x of a less-than check is not counted among its columns.
LessThanShape_without_x ==
    {less_than_selector, threshold_column, u_column, check_column, diff_column}
        \cup (IF U64Lt(u, U64(256)) THEN {diff_lookup_selector} ELSE {})

LessThanShape ==
    {less_than_selector, x_column, threshold_column, u_column, check_column, diff_column}
        \cup (IF U64Lt(u, U64(256)) THEN {diff_lookup_selector} ELSE {})

\* check_less_than(value, threshold, u): one region of two rows; x, threshold, u
\* and check in row 0 with the less-than selector, diff in row 1; the diff lookup
\* selector is enabled on row 1 only when u < 256.  Returns the check cell.
CheckLessThan(limit) ==
    /\ phase = "synthesize"
    /\ Len(regions) < limit
    /\ LET start == RegionStart(LessThanShape)
           check_cell == <<check_column, start>>
           assigned == {<<x_column, start>>, <<threshold_column, start>>,
                        <<u_column, start>>, check_cell, <<diff_column, start + 1>>}
       IN  /\ cells' = (<<x_column, start>> :> FrFromU64(value))
                        @@ (<<threshold_column, start>> :> FrFromU64(threshold))
                        @@ (<<u_column, start>> :> FrFromU64(u))
                        @@ (check_cell :> CheckValue(value, threshold))
                        @@ (<<diff_column, start + 1>> :> DiffValue(value, threshold, u))
                        @@ cells
           /\ enabled' = enabled \cup {<<less_than_selector, start>>}
                            \cup (IF U64Lt(u, U64(256))
                                  THEN {<<diff_lookup_selector, start + 1>>} ELSE {})
           /\ columns' = ColumnsAfter(LessThanShape, 2)
           /\ regions' = Append(regions,
                  [name |-> "check x < t", start |-> start, rows |-> 2,
                   assigned |-> assigned, result |-> "Ok", cell |-> <<check_cell>>])
    /\ UNCHANGED <<others, value, threshold, u, tableLoaded, forged, sort, phase, failures>>

(***************************************************************************)
(* The two operations step by step: every assignment and every selector    *)
(* enable of a region closure ends in `?`, so the first one the prover      *)
(* refuses (a row outside its usable rows) ends the closure with its error. *)
(***************************************************************************)
MaxStepRegions == 2

\* The usable rows of the provers the operations are run on.
UsableRows == {0, 1, 2, 5, 8, 9, 10, 11, 24}

Advice(column, row, val) == [kind |-> "advice", cell |-> <<column, row>>, val |-> val]
Fixed(column, row, val) == [kind |-> "fixed", cell |-> <<column, row>>, val |-> val]
Enable(sel, row) == [kind |-> "selector", cell |-> <<sel, row>>, val |-> FrOne]

\* The steps of the closure of decompose_64bit, in order: chunk i and its
\* selector for i = 0..7, the value, the decomposition selector.
DecomposeSteps(start) ==
    [n \in 1..18 |->
        LET i == (n - 1) \div 2
        IN  IF n <= 16 /\ n % 2 = 1
            THEN Advice(chunk_columns[i], start + i, FrFromU64(U64(decomposed(value)[i])))
            ELSE IF n <= 16 THEN Enable(selector, start + i)
            ELSE IF n = 17 THEN Advice(x_column, start + 8, FrFromU64(value))
            ELSE Enable(decomposition_selector, start + 8)]

\* The steps of the closure of check_less_than, in order.
LessThanSteps(start) ==
    <<Enable(less_than_selector, start),
      Advice(x_column, start, FrFromU64(value)),
      Fixed(threshold_column, start, FrFromU64(threshold)),
      Fixed(u_column, start, FrFromU64(u)),
      Advice(check_column, start, CheckValue(value, threshold)),
      Advice(diff_column, start + 1, DiffValue(value, threshold, u))>>
        \o (IF U64Lt(u, U64(256)) THEN <<Enable(diff_lookup_selector, start + 1)>>
            ELSE <<>>)

\* Mutant: enabling a selector is never refused.
StepFails_selectors_unchecked(st, usable) == st.kind # "selector" /\ st.cell[2] >= usable

\* The prover refuses a step on a row outside its usable rows.
StepFails(st, usable) == st.cell[2] >= usable

\* layouter.assign_region: the floor planner places the region, the closure
\* starts at its first step.
BeginDecompose ==
    /\ phase = "synthesize"
    /\ running.name = "none"
    /\ Len(regions) < MaxStepRegions
    /\ LET start == RegionStart(DecomposeShape)
       IN  running' = [name |-> "decompose 64bit", start |-> start, rows |-> 9,
                       steps |-> DecomposeSteps(start), step |-> 1,
                       returns |-> [i \in 0..7 |-> <<chunk_columns[i], start + i>>],
                       usable |-> running.usable]
    /\ columns' = ColumnsAfter(DecomposeShape, 9)
    /\ UNCHANGED <<value, threshold, u, tableLoaded, cells, enabled, regions, forged, sort,
                   group_by, join, aggregation, calls, previous, pending, phase, failures>>

BeginLessThan ==
    /\ phase = "synthesize"
    /\ running.name = "none"
    /\ Len(regions) < MaxStepRegions
    /\ LET start == RegionStart(LessThanShape)
       IN  running' = [name |-> "check x < t", start |-> start, rows |-> 2,
                       steps |-> LessThanSteps(start), step |-> 1,
                       returns |-> <<<<check_column, start>>>>,
                       usable |-> running.usable]
    /\ columns' = ColumnsAfter(LessThanShape, 2)
    /\ UNCHANGED <<value, threshold, u, tableLoaded, cells, enabled, regions, forged, sort,
                   group_by, join, aggregation, calls, previous, pending, phase, failures>>

\* One step of the closure.  A refused step ends the operation with the error
\* and no cell, and with it the synthesis; the last step returns the cells.
RegionStep ==
    /\ phase = "synthesize"
    /\ running.name # "none"
    /\ LET st == running.steps[running.step]
           failed == StepFails(st, running.usable)
           last == running.step = Len(running.steps)
           done == {running.steps[j].cell :
                       j \in {n \in 1..(running.step - 1) :
                                 running.steps[n].kind # "selector"}}
           returned(result, assigned, returns) ==
               Append(regions, [name |-> running.name, start |-> running.start,
                                rows |-> running.rows, assigned |-> assigned,
                                result |-> result, cell |-> returns,
                                step |-> running.step])
       IN  /\ cells' = IF ~failed /\ st.kind # "selector"
                       THEN (st.cell :> st.val) @@ cells ELSE cells
           /\ enabled' = IF ~failed /\ st.kind = "selector"
                         THEN enabled \cup {st.cell} ELSE enabled
           /\ regions' = IF failed THEN returned("NotEnoughRowsAvailable", done, <<>>)
                         ELSE IF last
                              THEN returned("Ok", done \cup (IF st.kind # "selector"
                                                             THEN {st.cell} ELSE {}),
                                            running.returns)
                              ELSE regions
           /\ running' = IF failed \/ last
                         THEN [NotRunning EXCEPT !.usable = running.usable]
                         ELSE [running EXCEPT !.step = running.step + 1]
           /\ phase' = IF failed THEN "failed" ELSE phase
    /\ UNCHANGED <<value, threshold, u, tableLoaded, columns, forged, sort, group_by, join,
                   aggregation, calls, previous, pending, failures>>

(***************************************************************************)
(* Sort synthesis                                                          *)
(***************************************************************************)
MaxSortLen == 3

\* The sequences over S of length at most n.
SeqsUpTo(S, n) == UNION {[1..k -> S] : k \in 0..n}
SortValues == {U64(1), U64(2), U64(3)}
SortSequences == SeqsUpTo(SortValues, MaxSortLen)
Challenges == {FrSmall(7), FrSmall(1000)}

\* Mutant: a sort that also removes repeated elements.
RECURSIVE Insert_dedup(_, _)
Insert_dedup(v, seq) ==
    IF seq = <<>> THEN <<v>>
    ELSE IF v = Head(seq) THEN seq
    ELSE IF U64Lt(v, Head(seq)) THEN <<v>> \o seq
    ELSE <<Head(seq)>> \o Insert_dedup(v, Tail(seq))

\* sorted_values.sort(): ascending order, by insertion.
RECURSIVE Insert(_, _)
Insert(v, seq) ==
    IF seq = <<>> THEN <<v>>
    ELSE IF U64Lt(v, Head(seq)) THEN <<v>> \o seq
    ELSE <<Head(seq)>> \o Insert(v, Tail(seq))

RECURSIVE SortedValues(_)
SortedValues(seq) ==
    IF seq = <<>> THEN <<>> ELSE Insert(Head(seq), SortedValues(Tail(seq)))

\* The running product of (challenge + element) over a sequence; the empty
\* product is one.
RECURSIVE GrandProduct(_, _)
GrandProduct(seq, challenge) ==
    IF seq = <<>> THEN FrOne
    ELSE FrMul(GrandProduct(SubSeq(seq, 1, Len(seq) - 1), challenge),
               FrAdd(challenge, FrFromU64(seq[Len(seq)])))

\* The less-than check of every adjacent output pair: out[i] < out[i+1] + 1.
AdjacentChecks(output) ==
    [i \in 1..(Len(output) - 1) |-> CheckValue(output[i], U64Add(output[i + 1], U64(1)))]

\* sort_and_verify(input, output): what the chip assigns, given the running
\* product of the input.
SortAndVerify(input, input_product, output, byTest) ==
    [assigned |-> TRUE, by_test |-> byTest, input |-> input, output |-> output,
     challenge |-> sort.challenge,
     input_product |-> input_product,
     output_product |-> GrandProduct(output, sort.challenge),
     checks |-> AdjacentChecks(output)]

\* SortTestCircuit::synthesize: load the table, sort the input as the witness,
\* sort_and_verify(input, sorted).
SortSynthesize ==
    /\ phase = "synthesize"
    /\ ~sort.assigned
    /\ tableLoaded' = TRUE
    /\ sort' = SortAndVerify(sort.input, GrandProduct(sort.input, sort.challenge),
                             SortedValues(sort.input), TRUE)
    /\ UNCHANGED <<others, value, threshold, u, columns, cells, enabled, regions, forged,
                   phase, failures>>

\* sort_and_verify called with any claimed output.
SortClaimed ==
    /\ phase = "synthesize"
    /\ ~sort.assigned
    /\ tableLoaded' = TRUE
    /\ \E input_product \in {GrandProduct(sort.input, sort.challenge)} :
          \E output \in SortSequences :
              sort' = SortAndVerify(sort.input, input_product, output, FALSE)
    /\ UNCHANGED <<others, value, threshold, u, columns, cells, enabled, regions, forged,
                   phase, failures>>

\* The sort gate's constraints: the final products are equal (gate 2) and every
\* adjacent check is one (gate 3, one per pair).
SortFailures ==
    IF ~sort.assigned THEN {}
    ELSE (IF sort.input_product = sort.output_product THEN {}
          ELSE {[kind |-> "ConstraintNotSatisfied", gate |-> 2, row |-> 0]})
         \cup
         {[kind |-> "ConstraintNotSatisfied", gate |-> 3, row |-> i] :
             i \in {j \in DOMAIN sort.checks : sort.checks[j] # FrOne}}

(***************************************************************************)
(* The group-by gate (GroupByChip), after its contract: one boundary bit   *)
(* per row, 1 in row 0 and elsewhere 1 exactly when the difference to the  *)
(* previous key is not zero.                                               *)
(***************************************************************************)
MaxKeysLen == 7
KeyValues == {U64(1), U64(2), U64(3)}
KeySequences == SeqsUpTo(KeyValues, MaxKeysLen)

\* key[i] - key[i-1] in the field (rows from 1, the first row has no previous).
KeyDifference(keys, i) == FrSub(FrFromU64(keys[i]), FrFromU64(keys[i - 1]))

\* group_and_verify(keys): what the chip assigns.
GroupAndVerify(keys) ==
    [assigned |-> TRUE, group_keys |-> keys,
     boundaries |-> [i \in 1..Len(keys) |->
                        IF i = 1 THEN FrOne
                        ELSE IF KeyDifference(keys, i) = FrZero THEN FrZero
                        ELSE FrOne]]

\* Mutant: the keys are passed on as they came.
GroupBySortedKeys_unsorted(keys) == keys

\* sorted_keys.sort() of GroupByTestCircuit::synthesize.
GroupBySortedKeys(keys) == SortedValues(keys)

\* GroupByTestCircuit::synthesize: load the table, sort the keys,
\* group_and_verify(sorted_keys).
GroupBySynthesize ==
    /\ phase = "synthesize"
    /\ ~group_by.assigned
    /\ tableLoaded' = TRUE
    /\ group_by' = GroupAndVerify(GroupBySortedKeys(group_by.group_keys))
    /\ UNCHANGED <<value, threshold, u, columns, cells, enabled, regions, forged, sort,
                   join, aggregation, calls, previous, pending, running, phase, failures>>

\* The group-by gate's constraints (gate 4, one per row): the boundary bit is
\* boolean, one in the first row, and elsewhere one exactly when the key
\* difference is not zero.
GroupByFailures ==
    IF ~group_by.assigned THEN {}
    ELSE {[kind |-> "ConstraintNotSatisfied", gate |-> 4, row |-> i - 1] :
             i \in {j \in DOMAIN group_by.boundaries :
                       group_by.boundaries[j] #
                           (IF j = 1 THEN FrOne
                            ELSE IF KeyDifference(group_by.group_keys, j) = FrZero
                                 THEN FrZero ELSE FrOne)}}

(***************************************************************************)
(* The join gate (JoinChip), after its contract: a match flag for every    *)
(* candidate pair of rows, one when the key difference is zero, and one    *)
(* output row per flagged pair with the key and both values; rows without  *)
(* a partner are left out.                                                 *)
(***************************************************************************)
MaxTableLen == 3
JoinKeyValues == {U64(1), U64(2), U64(3), U64(4)}

\* The key-sorted key columns, and the value columns that go with them.
SortedKeySequences ==
    {keys \in SeqsUpTo(JoinKeyValues, MaxTableLen) :
        \A i \in 2..Len(keys) : ~U64Lt(keys[i], keys[i - 1])}
Table1Values(n) == [i \in 1..n |-> U64(10 * i)]
Table2Values(n) == [i \in 1..n |-> U64(100 * (i + 1))]

\* The candidate pairs <<i, j>> of rows (from 1), row by row of table 1.
Candidates(n1, n2) ==
    [n \in 1..(n1 * n2) |-> <<((n - 1) \div n2) + 1, ((n - 1) % n2) + 1>>]

\* The match flag of a pair: whether the key difference is zero in the field.
MatchFlag(keys1, keys2, pair) ==
    IF FrSub(FrFromU64(keys1[pair[1]]), FrFromU64(keys2[pair[2]])) = FrZero
    THEN FrOne ELSE FrZero

\* join_and_verify(keys1, values1, keys2, values2): what the chip assigns.
JoinAndVerify(keys1, values1, keys2, values2) ==
    LET candidates == Candidates(Len(keys1), Len(keys2))
        flags == [n \in DOMAIN candidates |-> MatchFlag(keys1, keys2, candidates[n])]
        Flagged(pair) == MatchFlag(keys1, keys2, pair) = FrOne
        row(pair) == [i |-> pair[1], j |-> pair[2], key |-> keys1[pair[1]],
                      value1 |-> values1[pair[1]], value2 |-> values2[pair[2]]]
        flagged == SelectSeq(candidates, Flagged)
    IN  [assigned |-> TRUE, table1_keys |-> keys1, table1_values |-> values1,
         table2_keys |-> keys2, table2_values |-> values2, flags |-> flags,
         matches |-> [n \in DOMAIN flagged |-> row(flagged[n])]]

\* Mutant: the keys of table 1 are passed where its values belong.
JoinArguments_keys_as_values(j) ==
    <<j.table1_keys, j.table1_keys, j.table2_keys, j.table2_values>>

\* The arguments JoinTestCircuit::synthesize passes to join_and_verify.
JoinArguments(j) == <<j.table1_keys, j.table1_values, j.table2_keys, j.table2_values>>

\* JoinTestCircuit::synthesize: load the table, join_and_verify on the four
\* columns of the circuit.
JoinSynthesize ==
    /\ phase = "synthesize"
    /\ ~join.assigned
    /\ tableLoaded' = TRUE
    /\ LET args == JoinArguments(join)
       IN  join' = [JoinAndVerify(args[1], args[2], args[3], args[4]) EXCEPT
                       !.table1_keys = join.table1_keys,
                       !.table1_values = join.table1_values,
                       !.table2_keys = join.table2_keys,
                       !.table2_values = join.table2_values]
    /\ UNCHANGED <<value, threshold, u, columns, cells, enabled, regions, forged, sort,
                   group_by, aggregation, calls, previous, pending, running, phase, failures>>

\* The join gate's constraints: every flag is the zero test of its pair's key
\* difference (gate 5, one per candidate), and the output has one row per
\* flagged pair (gate 6).
JoinFailures ==
    IF ~join.assigned THEN {}
    ELSE LET candidates == Candidates(Len(join.table1_keys), Len(join.table2_keys))
         IN  {[kind |-> "ConstraintNotSatisfied", gate |-> 5, row |-> n] :
                 n \in {k \in DOMAIN join.flags :
                           join.flags[k] #
                               MatchFlag(join.table1_keys, join.table2_keys, candidates[k])}}
             \cup
             (IF Len(join.matches) =
                    Cardinality({k \in DOMAIN join.flags : join.flags[k] = FrOne})
              THEN {}
              ELSE {[kind |-> "ConstraintNotSatisfied", gate |-> 6, row |-> 0]})

(***************************************************************************)
(* The aggregation gate (AggregationChip), after its contract: the         *)
(* boundary bits of the group-by gate, an accumulator per row (reset at a  *)
(* boundary row, updated elsewhere), and the accumulator of each group's   *)
(* last row as that group's result.                                        *)
(***************************************************************************)
AggregationTypes == {"sum", "count", "max", "min"}

Reverse(seq) == [i \in 1..Len(seq) |-> seq[Len(seq) + 1 - i]]

\* The key columns of the aggregation circuits: the non-decreasing sequences
\* and the same in reverse order (the circuit sorts its keys itself).
AggregationKeySequences ==
    LET sorted == {keys \in KeySequences :
                      \A i \in 2..Len(keys) : ~U64Lt(keys[i], keys[i - 1])}
    IN  sorted \cup {Reverse(keys) : keys \in sorted}

\* The value columns of length n: 10, 20, ... upwards, downwards, and mixed.
ValueSequences(n) ==
    {[i \in 1..n |-> U64(10 * i)],
     [i \in 1..n |-> U64(10 * (n + 1 - i))],
     [i \in 1..n |-> U64(10 * (((3 * i) % 7) + 1))]}

\* Mutant: the reset to an identity, 0 for SUM and COUNT and the current value
\* for MAX and MIN.
ResetAccumulator_identity(agg_type, v) ==
    IF agg_type \in {"sum", "count"} THEN FrZero ELSE FrFromU64(v)

\* The accumulator at a boundary row, and after a row that is no boundary.
ResetAccumulator(agg_type, v) ==
    IF agg_type = "count" THEN FrOne ELSE FrFromU64(v)
UpdateAccumulator(agg_type, acc, v) ==
    CASE agg_type = "sum" -> FrAdd(acc, FrFromU64(v))
      [] agg_type = "count" -> FrAdd(acc, FrOne)
      [] agg_type = "max" ->
            IF CheckValue(FrToU64(acc), v) = FrOne THEN FrFromU64(v) ELSE acc
      [] agg_type = "min" ->
            IF CheckValue(v, FrToU64(acc)) = FrOne THEN FrFromU64(v) ELSE acc

\* The accumulator of row i (rows from 1).
RECURSIVE Accumulator(_, _, _, _)
Accumulator(boundaries, values, agg_type, i) ==
    IF boundaries[i] = FrOne THEN ResetAccumulator(agg_type, values[i])
    ELSE UpdateAccumulator(agg_type, Accumulator(boundaries, values, agg_type, i - 1),
                           values[i])

\* The last rows of the groups, in order: the rows before a boundary, and the
\* final row.
LastRows(boundaries) ==
    LET n == Len(boundaries)
        IsLast(i) == i = n \/ boundaries[i + 1] = FrOne
    IN  SelectSeq([i \in 1..n |-> i], IsLast)

\* aggregate_and_verify(keys, values, agg_type): what the chip assigns.
AggregateAndVerify(keys, values, agg_type) ==
    LET boundaries == GroupAndVerify(keys).boundaries
        accumulators == [i \in 1..Len(keys) |->
                            Accumulator(boundaries, values, agg_type, i)]
        last == LastRows(boundaries)
    IN  [assigned |-> TRUE, group_keys |-> keys, values |-> values,
         agg_type |-> agg_type, boundaries |-> boundaries,
         accumulators |-> accumulators,
         results |-> [g \in DOMAIN last |-> accumulators[last[g]]]]

\* Mutant: the keys are passed on as they came.
AggregationSortedKeys_unsorted(keys) == keys

\* sorted_keys.sort() of AggregationTestCircuit::synthesize.
AggregationSortedKeys(keys) == SortedValues(keys)

\* AggregationTestCircuit::synthesize: load the table, sort the keys,
\* aggregate_and_verify(sorted_keys, values, agg_type).
AggregationSynthesize ==
    /\ phase = "synthesize"
    /\ ~aggregation.assigned
    /\ tableLoaded' = TRUE
    /\ aggregation' = AggregateAndVerify(AggregationSortedKeys(aggregation.group_keys),
                                         aggregation.values, aggregation.agg_type)
    /\ UNCHANGED <<value, threshold, u, columns, cells, enabled, regions, forged, sort,
                   group_by, join, calls, previous, pending, running, phase, failures>>

\* The aggregation gate's constraints (gate 7, one per row): the accumulator
\* follows the rule of its row.
AggregationFailures ==
    IF ~aggregation.assigned THEN {}
    ELSE {[kind |-> "ConstraintNotSatisfied", gate |-> 7, row |-> i - 1] :
             i \in {j \in DOMAIN aggregation.accumulators :
                       aggregation.accumulators[j] #
                           (IF aggregation.boundaries[j] = FrOne
                            THEN ResetAccumulator(aggregation.agg_type,
                                                  aggregation.values[j])
                            ELSE UpdateAccumulator(aggregation.agg_type,
                                                   aggregation.accumulators[j - 1],
                                                   aggregation.values[j]))}}

(***************************************************************************)
(* The top-level circuit (PoneglyphCircuit)                                *)
(***************************************************************************)
MaxPending == 2

\* The operation of create_test_circuit, and the range-check operations a
\* circuit may be built to hold.
TestRangeCheckOp == [value |-> U64(10), threshold |-> U64(20), u |-> U64(256)]
RangeCheckOps ==
    {TestRangeCheckOp}
        \cup {[value |-> v, threshold |-> t, u |-> U64(256)] :
                 v \in Values, t \in Thresholds}
PendingOperations == SeqsUpTo(RangeCheckOps, MaxPending)

\* Circuit::synthesize of PoneglyphCircuit: the body is empty and returns
\* Ok(()); neither the configuration nor the layouter is used.
PoneglyphSynthesize ==
    /\ phase = "synthesize"
    /\ calls = <<>>
    /\ calls' = <<[op |-> "PoneglyphCircuit::synthesize", result |-> "Ok"]>>
    /\ UNCHANGED <<value, threshold, u, tableLoaded, columns, cells, enabled, regions,
                   forged, sort, group_by, join, aggregation, previous, pending, running, phase,
                   failures>>

(***************************************************************************)
(* The validation helpers (validation.rs).  A result is Ok(()) or            *)
(* Err(PoneglyphError::Validation(message)); a message is the sequence of  *)
(* the pieces format! puts together, a number being the sequence of its    *)
(* decimal digits as Display for u64 and usize writes them.                *)
(***************************************************************************)
MaxCalls == 1

Ok == [kind |-> "Ok", message |-> <<>>]
Validation(message) == [kind |-> "Validation", message |-> message]

DigitChars == <<"0", "1", "2", "3", "4", "5", "6", "7", "8", "9">>

\* v / 10 and v % 10 on u64, by long division from the top digit.
U64DivMod10(v) ==
    LET n4 == v[4]
        n3 == (n4 % 10) * Radix + v[3]
        n2 == (n3 % 10) * Radix + v[2]
        n1 == (n2 % 10) * Radix + v[1]
    IN  <<<<n1 \div 10, n2 \div 10, n3 \div 10, n4 \div 10>>, n1 % 10>>

\* "{}" of a u64: its decimal digits, most significant first, "0" for zero.
RECURSIVE Display(_)
Display(v) ==
    LET qr == U64DivMod10(v)
    IN  IF qr[1] = U64Zero THEN <<DigitChars[qr[2] + 1]>>
        ELSE Append(Display(qr[1]), DigitChars[qr[2] + 1])

\* The inputs of the helpers' callers.
ErrorMessages == {"test"}
RangeValues == {U64Zero, U64(5), U64(10), U64(15), U64Max}
KeySlices == SeqsUpTo({U64(1)}, MaxSortLen)
Slices == SeqsUpTo({"a"}, MaxSortLen)

\* Mutant: value > max in place of value >= max.
validate_range_closed(v, min, max, error_msg) ==
    IF U64Lt(v, min) \/ U64Lt(max, v)
    THEN Validation(<<error_msg, ": value ", Display(v), " is not in range [",
                      Display(min), ", ", Display(max), ")">>)
    ELSE Ok

\* validate_range(value, min, max, error_msg)
validate_range(v, min, max, error_msg) ==
    IF U64Lt(v, min) \/ ~U64Lt(v, max)
    THEN Validation(<<error_msg, ": value ", Display(v), " is not in range [",
                      Display(min), ", ", Display(max), ")">>)
    ELSE Ok

\* Mutant: keys[i] <= keys[i - 1] in place of keys[i] < keys[i - 1].
validate_sorted_strict(keys, error_msg) ==
    LET bad == {i \in 1..(Len(keys) - 1) : ~U64Lt(keys[i], keys[i + 1])}
    IN  IF bad = {} THEN Ok
        ELSE Validation(<<error_msg, ": keys are not sorted at index ",
                          Display(U64(CHOOSE i \in bad : \A j \in bad : i <= j))>>)

\* The loop of validate_sorted from index i (the slice is indexed from 0 in the
\* source, the sequence from 1 here).
RECURSIVE validate_sorted_from(_, _, _)
validate_sorted_from(keys, error_msg, i) ==
    IF i >= Len(keys) THEN Ok
    ELSE IF U64Lt(keys[i + 1], keys[i])
         THEN Validation(<<error_msg, ": keys are not sorted at index ", Display(U64(i))>>)
         ELSE validate_sorted_from(keys, error_msg, i + 1)

\* validate_sorted(keys, error_msg)
validate_sorted(keys, error_msg) == validate_sorted_from(keys, error_msg, 1)

\* Mutant: a.len() < b.len() in place of a.len() != b.len().
validate_equal_length_shorter(a, b, error_msg) ==
    IF Len(a) < Len(b)
    THEN Validation(<<error_msg, ": lengths do not match (", Display(U64(Len(a))),
                      " vs ", Display(U64(Len(b))), ")">>)
    ELSE Ok

\* validate_equal_length(a, b, error_msg)
validate_equal_length(a, b, error_msg) ==
    IF Len(a) # Len(b)
    THEN Validation(<<error_msg, ": lengths do not match (", Display(U64(Len(a))),
                      " vs ", Display(U64(Len(b))), ")">>)
    ELSE Ok

\* A call of a helper: its name, its arguments, the arguments as they are when
\* it returns (they are passed by value or by shared reference), its result.
Call(op, args, result) == [op |-> op, args |-> args, after |-> args, result |-> result]

ValidateRange ==
    /\ Len(calls) < MaxCalls
    /\ \E v \in RangeValues, min \in RangeValues, max \in RangeValues,
          error_msg \in ErrorMessages :
          calls' = Append(calls, Call("validate_range", <<v, min, max, error_msg>>,
                                      validate_range(v, min, max, error_msg)))
    /\ UNCHANGED <<value, threshold, u, tableLoaded, columns, cells, enabled, regions,
                   forged, sort, group_by, join, aggregation, previous, pending, running, phase,
                   failures>>

ValidateSorted ==
    /\ Len(calls) < MaxCalls
    /\ \E keys \in SortSequences, error_msg \in ErrorMessages :
          calls' = Append(calls, Call("validate_sorted", <<keys, error_msg>>,
                                      validate_sorted(keys, error_msg)))
    /\ UNCHANGED <<value, threshold, u, tableLoaded, columns, cells, enabled, regions,
                   forged, sort, group_by, join, aggregation, previous, pending, running, phase,
                   failures>>

ValidateEqualLength ==
    /\ Len(calls) < MaxCalls
    /\ \E a \in KeySlices, b \in Slices, error_msg \in ErrorMessages :
          calls' = Append(calls, Call("validate_equal_length", <<a, b, error_msg>>,
                                      validate_equal_length(a, b, error_msg)))
    /\ UNCHANGED <<value, threshold, u, tableLoaded, columns, cells, enabled, regions,
                   forged, sort, group_by, join, aggregation, previous, pending, running, phase,
                   failures>>

(***************************************************************************)
(* The hex helpers (utils.rs).  A string is the sequence of its UTF-8      *)
(* bytes, as str::len and the slice hex[i..i + 2] see it; a result is Ok   *)
(* with bytes, Err with a message, or a panic.                             *)
(***************************************************************************)
MaxBytesLen == 3
MaxHexChars == 4
MaxHexCalls == 2

\* The bytes of the tests and the two extremes.
ByteValues == {0, 18, 52, 171, 205, 255}
ByteSequences == SeqsUpTo(ByteValues, MaxBytesLen)

\* The characters of the strings passed to hex_to_bytes, each as its UTF-8
\* bytes: '1', 'a', 'F', 'g', '+' and the two-byte U+00E9.
HexChars == {<<49>>, <<97>>, <<70>>, <<103>>, <<43>>, <<195, 169>>}
RECURSIVE StringsUpTo(_)
StringsUpTo(n) ==
    IF n = 0 THEN {<<>>}
    ELSE LET shorter == StringsUpTo(n - 1)
         IN  shorter \cup {s \o c : s \in shorter, c \in HexChars}
HexStrings == StringsUpTo(MaxHexChars)

HexOk(bytes) == [kind |-> "Ok", bytes |-> bytes, message |-> <<>>]
HexErr(message) == [kind |-> "Err", bytes |-> <<>>, message |-> message]
HexPanic == [kind |-> "panic", bytes |-> <<>>, message |-> <<>>]

\* The character of a hexadecimal digit d, in lower case.
LowerHexDigit(d) == IF d < 10 THEN 48 + d ELSE 87 + d

\* Mutant: upper-case digits ("{:02X}").
bytes_to_hex_upper(bytes) ==
    [k \in 1..(2 * Len(bytes)) |->
        LET b == bytes[(k + 1) \div 2]
            d == IF k % 2 = 1 THEN b \div 16 ELSE b % 16
        IN  IF d < 10 THEN 48 + d ELSE 55 + d]

\* bytes_to_hex(bytes): format!("{:02x}", b) of every byte, collected.
bytes_to_hex(bytes) ==
    [k \in 1..(2 * Len(bytes)) |->
        LET b == bytes[(k + 1) \div 2]
        IN  LowerHexDigit(IF k % 2 = 1 THEN b \div 16 ELSE b % 16)]

\* char::to_digit(16) of an ASCII byte; -1 when it is no digit.
ToDigit(c) ==
    IF c >= 48 /\ c <= 57 THEN c - 48
    ELSE IF c >= 97 /\ c <= 102 THEN c - 87
    ELSE IF c >= 65 /\ c <= 70 THEN c - 55
    ELSE -1

\* u8::from_str_radix(src, 16) of a two-byte slice: a leading '+' is skipped,
\* every remaining byte has to be a digit; -1 for Err.
from_str_radix(src) ==
    LET digits == IF src[1] = 43 THEN Tail(src) ELSE src
    IN  IF \E k \in DOMAIN digits : ToDigit(digits[k]) = -1 THEN -1
        ELSE IF Len(digits) = 1 THEN ToDigit(digits[1])
        ELSE 16 * ToDigit(digits[1]) + ToDigit(digits[2])

\* str::is_char_boundary(index), index counted from 0.
is_char_boundary(hex, index) ==
    \/ index = 0
    \/ index = Len(hex)
    \/ index < Len(hex) /\ (hex[index + 1] < 128 \/ hex[index + 1] >= 192)

\* The iterator of hex_to_bytes from index i, with the bytes collected so far:
\* slicing hex[i..i + 2] panics off a character boundary; the first pair that
\* does not parse ends the collection with its error.
RECURSIVE hex_to_bytes_from(_, _, _)
hex_to_bytes_from(hex, i, bytes) ==
    IF i >= Len(hex) THEN HexOk(bytes)
    ELSE IF ~(is_char_boundary(hex, i) /\ is_char_boundary(hex, i + 2)) THEN HexPanic
    ELSE LET byte == from_str_radix(SubSeq(hex, i + 1, i + 2))
         IN  IF byte = -1
             THEN HexErr(<<"Invalid hex character at position ", Display(U64(i))>>)
             ELSE hex_to_bytes_from(hex, i + 2, Append(bytes, byte))

\* hex_to_bytes(hex)
hex_to_bytes(hex) ==
    IF Len(hex) % 2 # 0 THEN HexErr(<<"Hex string must have even length">>)
    ELSE hex_to_bytes_from(hex, 0, <<>>)

BytesToHex ==
    /\ calls = <<>>
    /\ \E bytes \in ByteSequences :
          calls' = <<Call("bytes_to_hex", <<bytes>>, bytes_to_hex(bytes))>>
    /\ UNCHANGED <<value, threshold, u, tableLoaded, columns, cells, enabled, regions,
                   forged, sort, group_by, join, aggregation, previous, pending, running, phase,
                   failures>>

\* hex_to_bytes on a string of the caller, or on what bytes_to_hex returned.
HexToBytes ==
    /\ Len(calls) < MaxHexCalls
    /\ \A n \in DOMAIN calls : calls[n].op = "bytes_to_hex"
    /\ \E hex \in (IF calls = <<>> THEN HexStrings ELSE {calls[Len(calls)].result}) :
          calls' = Append(calls, Call("hex_to_bytes", <<hex>>, hex_to_bytes(hex)))
    /\ UNCHANGED <<value, threshold, u, tableLoaded, columns, cells, enabled, regions,
                   forged, sort, group_by, join, aggregation, previous, pending, running, phase,
                   failures>>

(***************************************************************************)
(* Verification (MockProver::verify over the gates and lookups of          *)
(* configure)                                                              *)
(***************************************************************************)
\* The witness the constraints are evaluated on: the assigned cells, with the
\* prover's replacements; a cell nobody assigned reads as zero.
Cell(c) ==
    IF c \in DOMAIN forged THEN forged[c]
    ELSE IF c \in DOMAIN cells THEN cells[c]
    ELSE FrZero

Enabled(sel, row) == <<sel, row>> \in enabled

\* The rows in use.
Rows == 0..(Max({columns[c] : c \in Columns}) - 1)

\* The lookup table: 0..255 once loaded; a table column never assigned holds
\* zero in every row.
InTable(e) == FrIsSmall(e) /\ (IF tableLoaded THEN FrLow(e) < 256 ELSE FrLow(e) = 0)

\* Mutant: the chunk never reaches the lookup.
ChunkLookupInput_dropped(i, row) == FrZero

\* Lookup i (0..7): selector * chunk_i, both at the current row.
ChunkLookupInput(i, row) ==
    IF Enabled(selector, row) THEN Cell(<<chunk_columns[i], row>>) ELSE FrZero

\* Gate "decomposition sum": s * (value - sum), value at the current row and
\* chunk i at Rotation(i - 8), sum folded from zero as acc + chunk * power with
\* power = Fr::from(1u64 << (i * 8)).  Each partial sum and each term is
\* computed before it is used; a zero operand leaves the other unchanged.
RECURSIVE DecompositionSum(_, _)
DecompositionSum(row, n) ==
    IF n = 0 THEN FrZero
    ELSE LET acc == DecompositionSum(row, n - 1)
             term == FrMul(Cell(<<chunk_columns[n - 1], row + (n - 1) - 8>>),
                           FrFromU64(U64Shl(U64(1), (n - 1) * 8)))
         IN  IF acc = FrZero THEN term
             ELSE IF term = FrZero THEN acc
             ELSE FrAdd(acc, term)

DecompositionGate(row) ==
    IF Enabled(decomposition_selector, row)
    THEN LET sum == DecompositionSum(row, 8)
         IN  IF sum = FrZero THEN Cell(<<x_column, row>>)
             ELSE FrSub(Cell(<<x_column, row>>), sum)
    ELSE FrZero

\* Mutant: chunk i queried at Rotation(i - 7).
DecompositionQueries_off_by_one(row) ==
    {<<x_column, row>>} \cup {<<chunk_columns[i], row + i - 7>> : i \in 0..7}

DecompositionQueries(row) ==
    {<<x_column, row>>} \cup {<<chunk_columns[i], row + i - 8>> : i \in 0..7}

\* Mutant: diff queried at Rotation::cur().
LessThanGate_cur(row) ==
    IF Enabled(less_than_selector, row)
    THEN FrSub(Cell(<<diff_column, row>>),
               FrMul(Cell(<<check_column, row>>),
                     FrAdd(FrSub(Cell(<<x_column, row>>), Cell(<<threshold_column, row>>)),
                           Cell(<<u_column, row>>))))
    ELSE FrZero

\* Gate "x < t constraint": s * check * (1 - check) and
\* s * (diff - check * (x - t + u)), diff at Rotation::next().
BooleanCheck(row) ==
    IF Enabled(less_than_selector, row)
    THEN FrMul(Cell(<<check_column, row>>), FrSub(FrOne, Cell(<<check_column, row>>)))
    ELSE FrZero

DiffExpr(row) ==
    FrMul(Cell(<<check_column, row>>),
          FrAdd(FrSub(Cell(<<x_column, row>>), Cell(<<threshold_column, row>>)),
                Cell(<<u_column, row>>)))

LessThanGate(row) ==
    IF Enabled(less_than_selector, row)
    THEN FrSub(Cell(<<diff_column, row + 1>>), DiffExpr(row))
    ELSE FrZero

LessThanQueries(row) ==
    {<<check_column, row>>, <<x_column, row>>, <<threshold_column, row>>,
     <<u_column, row>>, <<diff_column, row + 1>>}

\* Lookup 8: selector * diff + (1 - selector) * 0 at the current row.
DiffLookupInput(row) ==
    IF Enabled(diff_lookup_selector, row) THEN Cell(<<diff_column, row>>) ELSE FrZero

\* A gate whose selector is enabled in a region must find every cell it queries
\* assigned in that region.
UnassignedFailures ==
    {[kind |-> "CellNotAssigned", gate |-> g, row |-> r] :
        <<g, r>> \in
            {<<0, row>> : row \in {rr \in Rows :
                /\ Enabled(decomposition_selector, rr)
                /\ \E k \in 1..Len(regions) :
                      /\ rr \in regions[k].start..(regions[k].start + regions[k].rows - 1)
                      /\ ~(DecompositionQueries(rr) \subseteq regions[k].assigned)}}
            \cup
            {<<1, row>> : row \in {rr \in Rows :
                /\ Enabled(less_than_selector, rr)
                /\ \E k \in 1..Len(regions) :
                      /\ rr \in regions[k].start..(regions[k].start + regions[k].rows - 1)
                      /\ ~(LessThanQueries(rr) \subseteq regions[k].assigned)}}}

GateFailures ==
    {[kind |-> "ConstraintNotSatisfied", gate |-> 0, row |-> r] :
        r \in {rr \in Rows : DecompositionGate(rr) # FrZero}}
    \cup
    {[kind |-> "ConstraintNotSatisfied", gate |-> 1, row |-> r] :
        r \in {rr \in Rows : BooleanCheck(rr) # FrZero \/ LessThanGate(rr) # FrZero}}

LookupFailures ==
    {[kind |-> "Lookup", gate |-> i, row |-> r] :
        <<i, r>> \in {ir \in (0..7) \X Rows : ~InTable(ChunkLookupInput(ir[1], ir[2]))}}
    \cup
    {[kind |-> "Lookup", gate |-> 8, row |-> r] :
        r \in {rr \in Rows : ~InTable(DiffLookupInput(rr))}}

VerifyFailures ==
    UnassignedFailures \cup GateFailures \cup LookupFailures \cup SortFailures
        \cup GroupByFailures \cup JoinFailures \cup AggregationFailures

\* prover.verify(): Ok(()) when there is no failure.
Verify ==
    /\ phase = "synthesize"
    /\ phase' = "verified"
    /\ failures' = VerifyFailures
    /\ UNCHANGED <<others, value, threshold, u, tableLoaded, columns, cells, enabled, regions,
                   forged, sort>>

Next ==
    \/ LoadLookupTable
    \/ Decompose64bit(MaxRegions)
    \/ CheckLessThan(MaxRegions)
    \/ Verify

Spec == Init /\ [][Next]_vars

(***************************************************************************)
(* A dishonest prover: the advice cells are the prover's to choose, so any  *)
(* assigned advice cell may hold another value when the constraints are    *)
(* checked.  The fixed cells and the selectors belong to the circuit.      *)
(***************************************************************************)
MaxForged == 2
MaxProverRegions == 1

\* <<value, threshold, u>> with u < 256: x < t with u = t - x, x = t with
\* u = 1, and two with a diff in the middle of the table.
ProverInputs ==
    {<<U64(42), U64(100), U64(58)>>, <<U64(100), U64(100), U64(1)>>,
     <<U64(42), U64(100), U64(255)>>, <<Big, U64(1000), U64(255)>>}

\* The values a cell holding cur is changed to.
ForgedValues(cur) ==
    {FrAdd(cur, FrOne), FrSub(cur, FrOne), FrAdd(cur, FrSmall(256))}

InitProver ==
    /\ \E input \in ProverInputs :
          value = input[1] /\ threshold = input[2] /\ u = input[3]
    /\ tableLoaded = TRUE
    /\ columns = [c \in Columns |-> 0]
    /\ cells = <<>>
    /\ enabled = {}
    /\ regions = <<>>
    /\ forged = <<>>
    /\ sort = NoSort
    /\ OthersIdle
    /\ phase = "synthesize"
    /\ failures = {}

Tamper ==
    /\ phase = "synthesize"
    /\ Cardinality(DOMAIN forged) < MaxForged
    /\ \E c \in {d \in DOMAIN cells : d[1] \in AdviceColumns} \ DOMAIN forged :
          \E v \in ForgedValues(cells[c]) :
              forged' = (c :> v) @@ forged
    /\ UNCHANGED <<others, value, threshold, u, tableLoaded, columns, cells, enabled, regions,
                   sort, phase, failures>>

NextProver ==
    \/ Decompose64bit(MaxProverRegions)
    \/ CheckLessThan(MaxProverRegions)
    \/ Tamper
    \/ Verify

SpecProver == InitProver /\ [][NextProver]_vars

(***************************************************************************)
(* The sort gate on its own                                                *)
(***************************************************************************)
InitSort ==
    /\ value = U64Zero
    /\ threshold = U64Zero
    /\ u = U64Zero
    /\ tableLoaded = FALSE
    /\ columns = [c \in Columns |-> 0]
    /\ cells = <<>>
    /\ enabled = {}
    /\ regions = <<>>
    /\ forged = <<>>
    /\ \E input \in SortSequences, challenge \in Challenges :
          sort = [NoSort EXCEPT !.input = input, !.challenge = challenge]
    /\ OthersIdle
    /\ phase = "synthesize"
    /\ failures = {}

NextSort ==
    \/ SortSynthesize
    \/ SortClaimed
    \/ Verify

SpecSort == InitSort /\ [][NextSort]_vars

(***************************************************************************)
(* The group-by gate on its own                                            *)
(***************************************************************************)
\* The range gate's part of the state with nothing assigned.
RangeIdle ==
    /\ value = U64Zero
    /\ threshold = U64Zero
    /\ u = U64Zero
    /\ tableLoaded = FALSE
    /\ columns = [c \in Columns |-> 0]
    /\ cells = <<>>
    /\ enabled = {}
    /\ regions = <<>>
    /\ forged = <<>>
    /\ phase = "synthesize"
    /\ failures = {}

InitGroupBy ==
    /\ RangeIdle
    /\ sort = NoSort
    /\ \E keys \in KeySequences : group_by = [NoGroupBy EXCEPT !.group_keys = keys]
    /\ join = NoJoin
    /\ aggregation = NoAggregation
    /\ calls = <<>>
    /\ previous = NoRun
    /\ pending = <<>>
    /\ running = NotRunning

NextGroupBy ==
    \/ GroupBySynthesize
    \/ Verify

SpecGroupBy == InitGroupBy /\ [][NextGroupBy]_vars

(***************************************************************************)
(* The join gate on its own                                                *)
(***************************************************************************)
InitJoin ==
    /\ RangeIdle
    /\ sort = NoSort
    /\ group_by = NoGroupBy
    /\ \E keys1 \in SortedKeySequences, keys2 \in SortedKeySequences :
          join = [NoJoin EXCEPT !.table1_keys = keys1,
                                !.table1_values = Table1Values(Len(keys1)),
                                !.table2_keys = keys2,
                                !.table2_values = Table2Values(Len(keys2))]
    /\ aggregation = NoAggregation
    /\ calls = <<>>
    /\ previous = NoRun
    /\ pending = <<>>
    /\ running = NotRunning

NextJoin ==
    \/ JoinSynthesize
    \/ Verify

SpecJoin == InitJoin /\ [][NextJoin]_vars

(***************************************************************************)
(* The aggregation gate on its own                                         *)
(***************************************************************************)
InitAggregation ==
    /\ RangeIdle
    /\ sort = NoSort
    /\ group_by = NoGroupBy
    /\ join = NoJoin
    /\ \E keys \in AggregationKeySequences, agg_type \in AggregationTypes :
          \E values \in ValueSequences(Len(keys)) :
              aggregation = [NoAggregation EXCEPT !.group_keys = keys,
                                                  !.values = values,
                                                  !.agg_type = agg_type]
    /\ calls = <<>>
    /\ previous = NoRun
    /\ pending = <<>>
    /\ running = NotRunning

NextAggregation ==
    \/ AggregationSynthesize
    \/ Verify

SpecAggregation == InitAggregation /\ [][NextAggregation]_vars

(***************************************************************************)
(* The top-level circuit on its own                                        *)
(***************************************************************************)
InitTop ==
    /\ RangeIdle
    /\ sort = NoSort
    /\ group_by = NoGroupBy
    /\ join = NoJoin
    /\ aggregation = NoAggregation
    /\ calls = <<>>
    /\ previous = NoRun
    /\ pending \in PendingOperations
    /\ running = NotRunning

NextTop ==
    \/ PoneglyphSynthesize
    \/ Verify

SpecTop == InitTop /\ [][NextTop]_vars

(***************************************************************************)
(* Two runs of the range gate on the same inputs                           *)
(***************************************************************************)
\* The calls of a run: the names of its regions in order, and whether the
\* table was loaded.
Operations(regs, loaded) == <<[k \in DOMAIN regs |-> regs[k].name], loaded>>

\* A second MockProver::run on a circuit with the same value, threshold and u:
\* the first run's assignment and result are kept aside, the prover starts
\* from nothing.
Rerun ==
    /\ phase = "verified"
    /\ ~previous.ran
    /\ previous' = [ran |-> TRUE, operations |-> Operations(regions, tableLoaded),
                    cells |-> cells, enabled |-> enabled,
                    results |-> [k \in DOMAIN regions |->
                                    <<regions[k].result, regions[k].cell>>],
                    failures |-> failures]
    /\ tableLoaded' = FALSE
    /\ columns' = [c \in Columns |-> 0]
    /\ cells' = <<>>
    /\ enabled' = {}
    /\ regions' = <<>>
    /\ phase' = "synthesize"
    /\ failures' = {}
    /\ UNCHANGED <<value, threshold, u, forged, sort, group_by, join, aggregation, calls,
                   pending, running>>

NextRerun ==
    \/ LoadLookupTable
    \/ Decompose64bit(MaxRegions)
    \/ CheckLessThan(MaxRegions)
    \/ Verify
    \/ Rerun

SpecRerun == Init /\ [][NextRerun]_vars

(***************************************************************************)
(* check_range on its own                                                  *)
(***************************************************************************)
InitRange ==
    /\ value \in Values
    /\ threshold = U64Zero
    /\ u = U64Zero
    /\ tableLoaded = FALSE
    /\ columns = [c \in Columns |-> 0]
    /\ cells = <<>>
    /\ enabled = {}
    /\ regions = <<>>
    /\ forged = <<>>
    /\ sort = NoSort
    /\ OthersIdle
    /\ phase = "synthesize"
    /\ failures = {}

NextRange ==
    \/ LoadLookupTable
    \/ CheckRange(MaxRangeChecks)
    \/ Verify

SpecRange == InitRange /\ [][NextRange]_vars

(***************************************************************************)
(* The validation helpers on their own                                     *)
(***************************************************************************)
InitValidation ==
    /\ RangeIdle
    /\ sort = NoSort
    /\ OthersIdle

NextValidation ==
    \/ ValidateRange
    \/ ValidateSorted
    \/ ValidateEqualLength

SpecValidation == InitValidation /\ [][NextValidation]_vars

(***************************************************************************)
(* The hex helpers on their own                                            *)
(***************************************************************************)
InitHex ==
    /\ RangeIdle
    /\ sort = NoSort
    /\ OthersIdle

NextHex ==
    \/ BytesToHex
    \/ HexToBytes

SpecHex == InitHex /\ [][NextHex]_vars

(***************************************************************************)
(* The operations step by step, on provers of several sizes                *)
(***************************************************************************)
InitSteps ==
    /\ value \in {U64(42), Big}
    /\ threshold = U64(100)
    /\ u \in {U64(58), U64(256)}
    /\ tableLoaded = TRUE
    /\ columns = [c \in Columns |-> 0]
    /\ cells = <<>>
    /\ enabled = {}
    /\ regions = <<>>
    /\ forged = <<>>
    /\ sort = NoSort
    /\ group_by = NoGroupBy
    /\ join = NoJoin
    /\ aggregation = NoAggregation
    /\ calls = <<>>
    /\ previous = NoRun
    /\ pending = <<>>
    /\ \E usable \in UsableRows : running = [NotRunning EXCEPT !.usable = usable]
    /\ phase = "synthesize"
    /\ failures = {}

NextSteps ==
    \/ BeginDecompose
    \/ BeginLessThan
    \/ RegionStep

SpecSteps == InitSteps /\ [][NextSteps]_vars

(***************************************************************************)
(* Properties of the honest synthesis                                      *)
(***************************************************************************)
\* The regions with a given name, by index.
RegionsNamed(n) == {k \in 1..Len(regions) : regions[k].name = n}

\* Byte i of a u64 and a < b on u64, stated on the digits.
ByteOf(v, i) == (v[(i \div 2) + 1] \div (IF i % 2 = 0 THEN 1 ELSE 256)) % 256
Below(a, b) ==
    \E k \in 1..U64Digits : a[k] < b[k] /\ \A j \in (k + 1)..U64Digits : a[j] = b[j]

\* C1: the eight limbs decompose_64bit assigns are limb_i = (x >> 8i) & 0xFF,
\* each in [0, 255], and the sum of limb_i * 256^i is x (stated per 16-bit digit
\* of x: digit d = limb_(2d) + 256 * limb_(2d+1)); 0x1234567890ABCDEF gives
\* [0xEF, 0xCD, 0xAB, 0x90, 0x78, 0x56, 0x34, 0x12].
DecompositionRoundTrip ==
    \A k \in RegionsNamed("decompose 64bit") :
        LET limb(i) == cells[regions[k].cell[i]]
        IN  /\ \A i \in 0..7 :
                  /\ FrIsSmall(limb(i))
                  /\ FrLow(limb(i)) \in 0..255
                  /\ FrLow(limb(i)) = ByteOf(value, i)
            /\ \A d \in 1..U64Digits :
                  value[d] = FrLow(limb(2 * d - 2)) + 256 * FrLow(limb(2 * d - 1))
            /\ value = Big =>
                  <<FrLow(limb(0)), FrLow(limb(1)), FrLow(limb(2)), FrLow(limb(3)),
                    FrLow(limb(4)), FrLow(limb(5)), FrLow(limb(6)), FrLow(limb(7))>>
                      = <<239, 205, 171, 144, 120, 86, 52, 18>>

\* C1 witness: 0x1234567890ABCDEF has been decomposed and limb 0 is 0xEF.
DecompositionRoundTripWitness ==
    \E k \in RegionsNamed("decompose 64bit") :
        value = Big /\ cells[regions[k].cell[0]] = FrSmall(239)

\* C2: for every u, the check cell check_less_than assigns and returns is 1 if
\* x < t and 0 if x >= t.
CheckCellIsLessThan ==
    \A k \in RegionsNamed("check x < t") :
        cells[regions[k].cell[1]] = (IF Below(value, threshold) THEN FrOne ELSE FrZero)

\* C2 witness: less_than(500, 1000, 1000) has returned a cell holding 1.
CheckCellIsLessThanWitness ==
    \E k \in RegionsNamed("check x < t") :
        /\ value = U64(500) /\ threshold = U64(1000) /\ u = U64(1000)
        /\ cells[regions[k].cell[1]] = FrOne

\* u > |x - t|
BoundExceedsGap ==
    Below(IF Below(value, threshold) THEN NatSub(threshold, value)
          ELSE NatSub(value, threshold), u)

IsTestCircuit ==
    /\ tableLoaded
    /\ Len(regions) = 2
    /\ regions[1].name = "decompose 64bit"
    /\ regions[2].name = "check x < t"
    /\ u = TestBound(threshold)

\* C7: the test circuit with u = t + 1000 satisfies every enabled constraint
\* (verification returns Ok), for v < t and for v >= t, v = 2^64 - 1 included.
TestCircuitComplete ==
    (phase = "verified" /\ IsTestCircuit) => failures = {}

\* C7 witness: the test circuit for v = 2^64 - 1, t = u64::MAX / 2 has verified.
TestCircuitCompleteWitness ==
    /\ phase = "verified" /\ IsTestCircuit
    /\ value = U64Max /\ threshold = Half
    /\ failures = {}

\* C8: check_less_than called with x < t and u < t - x returns a validation
\* error and assigns no cell.
TooSmallBoundRejected ==
    \A k \in RegionsNamed("check x < t") :
        (Below(value, threshold) /\ Below(u, NatSub(threshold, value))) =>
            (regions[k].result # "Ok" /\ regions[k].assigned = {})

\* C9: check_less_than called with u >= 256 returns an error, and no accepted
\* circuit leaves diff without its range lookup.
LargeBoundRejected ==
    \A k \in RegionsNamed("check x < t") :
        /\ ~Below(u, U64(256)) => regions[k].result # "Ok"
        /\ (phase = "verified" /\ failures = {}) =>
               Enabled(diff_lookup_selector, regions[k].start + 1)

(***************************************************************************)
(* Properties of the constraint system against a dishonest prover          *)
(***************************************************************************)
\* C3: every witness with u < 256 that satisfies the less-than constraints has
\* check = 1 if and only if x < t.
LessThanGateSound ==
    \A k \in RegionsNamed("check x < t") :
        LET x == Cell(<<x_column, regions[k].start>>)
            check == Cell(<<check_column, regions[k].start>>)
        IN  (phase = "verified" /\ failures = {} /\ Below(u, U64(256)) /\ FrIsU64(x))
                => (check = FrOne <=> Below(FrToU64(x), threshold))

\* C4: a witness that satisfies the eight limb lookups and the decomposition sum
\* has a value in [0, 2^64) whose limbs are its byte decomposition; and the
\* honest witness with one limb cell or the value cell of the region changed
\* violates a lookup or the sum.
DecompositionSound ==
    \A k \in RegionsNamed("decompose 64bit") :
        LET v == Cell(<<x_column, regions[k].start + 8>>)
        IN  phase = "verified" =>
                /\ failures = {} =>
                      /\ FrIsU64(v)
                      /\ \A i \in 0..7 :
                            Cell(regions[k].cell[i]) = FrSmall(ByteOf(FrToU64(v), i))
                /\ (/\ Cardinality(DOMAIN forged) = 1
                    /\ DOMAIN forged \subseteq regions[k].assigned) => failures # {}

\* C4 witness: a decomposition with exactly one cell changed has been verified
\* and rejected.
DecompositionSoundWitness ==
    /\ phase = "verified"
    /\ Cardinality(DOMAIN forged) = 1
    /\ \E k \in RegionsNamed("decompose 64bit") : DOMAIN forged \subseteq regions[k].assigned
    /\ failures # {}

\* C6: when u < 256 and the diff lookup selector is enabled, every accepted
\* diff satisfies 0 <= diff < u.
DiffWindowBoundToU ==
    \A k \in RegionsNamed("check x < t") :
        LET diff == Cell(<<diff_column, regions[k].start + 1>>)
        IN  (/\ phase = "verified" /\ failures = {}
             /\ Below(u, U64(256))
             /\ Enabled(diff_lookup_selector, regions[k].start + 1))
                => (FrIsU64(diff) /\ Below(FrToU64(diff), u))

(***************************************************************************)
(* Properties of the sort gate                                             *)
(***************************************************************************)
\* The number of occurrences of v in a sequence.
Occurrences(v, seq) == Cardinality({i \in DOMAIN seq : seq[i] = v})
IsPermutation(a, b) ==
    /\ Len(a) = Len(b)
    /\ \A v \in SortValues : Occurrences(v, a) = Occurrences(v, b)
NonDecreasing(seq) ==
    \A i \in 1..(Len(seq) - 1) : seq[i] = seq[i + 1] \/ Below(seq[i], seq[i + 1])

BoundaryRows == {i \in DOMAIN group_by.boundaries : group_by.boundaries[i] = FrOne}

\* C11: the boundary vector of group_and_verify has boundary[0] = 1 and, for
\* i > 0, boundary[i] = 1 exactly when key[i] # key[i-1] (0 otherwise); the
\* number of boundaries is the number of distinct keys; no boundary for the
\* empty sequence; keys [1,1,2,2,2,3,3] give {0,2,5} (rows 1, 3, 6 counted from
\* 1); and the test circuit verifies.
GroupBoundaryCorrect ==
    group_by.assigned =>
        LET keys == group_by.group_keys
            boundary == group_by.boundaries
        IN  /\ Len(boundary) = Len(keys)
            /\ \A i \in DOMAIN boundary : boundary[i] \in {FrZero, FrOne}
            /\ keys # <<>> => boundary[1] = FrOne
            /\ \A i \in 2..Len(keys) : boundary[i] = FrOne <=> keys[i] # keys[i - 1]
            /\ Cardinality(BoundaryRows) = Cardinality({keys[i] : i \in DOMAIN keys})
            /\ keys = <<U64(1), U64(1), U64(2), U64(2), U64(2), U64(3), U64(3)>>
                  => BoundaryRows = {1, 3, 6}
            /\ phase = "verified" => failures = {}

\* C11 witness: the keys [1,1,2,2,2,3,3] have been grouped, with boundaries at
\* {0,2,5}, and verified.
GroupBoundaryCorrectWitness ==
    /\ group_by.assigned
    /\ group_by.group_keys = <<U64(1), U64(1), U64(2), U64(2), U64(2), U64(3), U64(3)>>
    /\ BoundaryRows = {1, 3, 6}
    /\ phase = "verified"

(***************************************************************************)
(* Properties of the join gate                                             *)
(***************************************************************************)
\* The pairs of rows (from 1) with equal keys.
EqualKeyPairs ==
    {pair \in (DOMAIN join.table1_keys) \X (DOMAIN join.table2_keys) :
        join.table1_keys[pair[1]] = join.table2_keys[pair[2]]}

\* C12: join_and_verify produces exactly one output row per pair (i, j) with
\* table1_keys[i] = table2_keys[j], carrying the values of rows i and j; the
\* output length is the number of such pairs: 2 for [1,2,3]/[2,3,4], 0 when the
\* key sets are disjoint or a table is empty, 3 for [1,2,3]/[1,1,2].
JoinCorrect ==
    join.assigned =>
        /\ \A n \in DOMAIN join.matches :
              LET row == join.matches[n]
              IN  /\ <<row.i, row.j>> \in EqualKeyPairs
                  /\ row.key = join.table1_keys[row.i]
                  /\ row.value1 = join.table1_values[row.i]
                  /\ row.value2 = join.table2_values[row.j]
        /\ \A pair \in EqualKeyPairs :
              Cardinality({n \in DOMAIN join.matches :
                              <<join.matches[n].i, join.matches[n].j>> = pair}) = 1
        /\ Len(join.matches) = Cardinality(EqualKeyPairs)
        /\ (join.table1_keys = <<U64(1), U64(2), U64(3)>>
               /\ join.table2_keys = <<U64(2), U64(3), U64(4)>>) => Len(join.matches) = 2
        /\ (join.table1_keys = <<U64(1), U64(2), U64(3)>>
               /\ join.table2_keys = <<U64(1), U64(1), U64(2)>>) => Len(join.matches) = 3
        /\ (join.table1_keys = <<>> \/ join.table2_keys = <<>>) => join.matches = <<>>
        /\ ({join.table1_keys[i] : i \in DOMAIN join.table1_keys}
               \cap {join.table2_keys[j] : j \in DOMAIN join.table2_keys} = {})
              => join.matches = <<>>
        /\ phase = "verified" => failures = {}

\* C12 witness: the join of PK [1,2,3] with FK [1,1,2] has three rows and has
\* been verified.
JoinCorrectWitness ==
    /\ join.assigned
    /\ join.table1_keys = <<U64(1), U64(2), U64(3)>>
    /\ join.table2_keys = <<U64(1), U64(1), U64(2)>>
    /\ Len(join.matches) = 3
    /\ phase = "verified"

(***************************************************************************)
(* Properties of the aggregation gate                                      *)
(***************************************************************************)
\* The distinct keys of the aggregated column, the rows of a key, and the
\* position of a key among the distinct keys in ascending order.
AggregatedKeys == {aggregation.group_keys[i] : i \in DOMAIN aggregation.group_keys}
RowsOfKey(k) == {i \in DOMAIN aggregation.group_keys : aggregation.group_keys[i] = k}
KeyRank(k) == Cardinality({k2 \in AggregatedKeys : Below(k2, k)}) + 1

\* The value of a row as a natural number (the values are below 2^16).
RowValue(i) == aggregation.values[i][1]

RECURSIVE SumOfRows(_)
SumOfRows(rows) ==
    IF rows = {} THEN 0
    ELSE LET i == CHOOSE j \in rows : TRUE IN RowValue(i) + SumOfRows(rows \ {i})

\* SUM, COUNT, MAX and MIN of a non-empty set of rows.
Aggregate(agg_type, rows) ==
    CASE agg_type = "sum" -> SumOfRows(rows)
      [] agg_type = "count" -> Cardinality(rows)
      [] agg_type = "max" ->
            RowValue(CHOOSE i \in rows : \A j \in rows : RowValue(j) <= RowValue(i))
      [] agg_type = "min" ->
            RowValue(CHOOSE i \in rows : \A j \in rows : RowValue(i) <= RowValue(j))

\* The results of the gate as natural numbers.
ResultNumbers == [g \in DOMAIN aggregation.results |-> aggregation.results[g][1]]

\* C13: aggregate_and_verify on sorted keys and equal-length values gives one
\* result per group, equal to the SUM, COUNT, MAX or MIN of the group's values;
\* keys [1,1,2,2,2,3,3] with values [10,...,70] give SUM [30,120,130], COUNT
\* [2,3,2], MAX [20,50,70], MIN [10,30,60]; the empty input has no result; a
\* single row gives its value (1 for COUNT); and the test circuit verifies.
AggregationCorrect ==
    aggregation.assigned =>
        LET keys == aggregation.group_keys
            results == aggregation.results
            agg_type == aggregation.agg_type
        IN  /\ NonDecreasing(keys)
            /\ Len(results) = Cardinality(AggregatedKeys)
            /\ \A k \in AggregatedKeys :
                  results[KeyRank(k)] = FrSmall(Aggregate(agg_type, RowsOfKey(k)))
            /\ (/\ keys = <<U64(1), U64(1), U64(2), U64(2), U64(2), U64(3), U64(3)>>
                /\ aggregation.values = [i \in 1..7 |-> U64(10 * i)])
                  => ResultNumbers = (CASE agg_type = "sum" -> <<30, 120, 130>>
                                        [] agg_type = "count" -> <<2, 3, 2>>
                                        [] agg_type = "max" -> <<20, 50, 70>>
                                        [] agg_type = "min" -> <<10, 30, 60>>)
            /\ keys = <<>> => results = <<>>
            /\ Len(keys) = 1
                  => ResultNumbers = <<IF agg_type = "count" THEN 1 ELSE RowValue(1)>>
            /\ phase = "verified" => failures = {}

\* C13 witness: the SUM over keys [1,1,2,2,2,3,3] and values [10,...,70] has
\* been computed as [30,120,130] and verified.
AggregationCorrectWitness ==
    /\ aggregation.assigned
    /\ aggregation.group_keys = <<U64(1), U64(1), U64(2), U64(2), U64(2), U64(3), U64(3)>>
    /\ aggregation.values = [i \in 1..7 |-> U64(10 * i)]
    /\ aggregation.agg_type = "sum"
    /\ ResultNumbers = <<30, 120, 130>>
    /\ phase = "verified"

(***************************************************************************)
(* Properties of the top-level circuit                                     *)
(***************************************************************************)
\* A range-check operation whose witness violates value < threshold.
ViolatesRelation(op) == ~U64Lt(op.value, op.threshold)
Synthesized == calls # <<>>

\* C14: synthesize of a PoneglyphCircuit holding pending operations assigns
\* their witnesses and enables their constraints, and a circuit holding an
\* operation whose witness violates its relation fails verification.
PendingOperationsCompiled ==
    /\ (Synthesized /\ pending # <<>>) => (regions # <<>> /\ enabled # {})
    /\ (/\ Synthesized
        /\ phase = "verified"
        /\ \E n \in DOMAIN pending : ViolatesRelation(pending[n])) => failures # {}

(***************************************************************************)
(* Properties of the lookup table                                          *)
(***************************************************************************)
\* A lookup-based constraint is enabled: the per-limb range selector of
\* decompose_64bit or the diff lookup selector of check_less_than.
LookupEnabled ==
    \E r \in Rows : Enabled(selector, r) \/ Enabled(diff_lookup_selector, r)

\* C15: a circuit that enables a lookup-based constraint without having loaded
\* the 0..255 table fails verification, whatever the witness (limbs and diff
\* equal to 0 included).
UnloadedTableRejected ==
    (phase = "verified" /\ ~tableLoaded /\ LookupEnabled) => failures # {}

(***************************************************************************)
(* Determinism                                                             *)
(***************************************************************************)
\* The second run has made the same calls as the first.
SameOperations ==
    previous.ran /\ Operations(regions, tableLoaded) = previous.operations

CheckRangeBounds ==
    (phase = "verified" /\ failures = {}) =>
        \A n \in DOMAIN calls :
            calls[n].op = "check_range" =>
                (~U64Lt(value, calls[n].min) /\ ~U64Lt(calls[n].max, value))

(***************************************************************************)
(* Properties of the validation helpers                                    *)
(***************************************************************************)
CallsOf(op) == {n \in DOMAIN calls : calls[n].op = op}

\* The number a sequence of decimal digits writes.
DigitValue(c) == CHOOSE d \in 0..9 : DigitChars[d + 1] = c
RECURSIVE DecimalValue(_)
DecimalValue(chars) ==
    IF chars = <<>> THEN U64Zero
    ELSE LET front == DecimalValue(SubSeq(chars, 1, Len(chars) - 1))
             last == U64(DigitValue(chars[Len(chars)]))
         IN  IF front = U64Zero THEN last
             ELSE U64Add(U64Add(U64Shl(front, 3), U64Shl(front, 1)), last)

\* C18: validate_range(value, min, max, msg) is Ok exactly when
\* min <= value < max; otherwise it is a Validation error whose message names
\* the value and both bounds; value = max is rejected, and so is every call
\* with min >= max.
ValidateRangeCorrect ==
    \A n \in CallsOf("validate_range") :
        LET v == calls[n].args[1]
            min == calls[n].args[2]
            max == calls[n].args[3]
            result == calls[n].result
        IN  /\ result.kind = "Ok" <=> ((min = v \/ Below(min, v)) /\ Below(v, max))
            /\ result.kind # "Ok" =>
                  /\ result.kind = "Validation"
                  /\ result.message[1] = calls[n].args[4]
                  /\ DecimalValue(result.message[3]) = v
                  /\ DecimalValue(result.message[5]) = min
                  /\ DecimalValue(result.message[7]) = max
            /\ v = max => result.kind = "Validation"
            /\ ~Below(min, max) => result.kind = "Validation"
            /\ (v = U64(5) /\ min = U64Zero /\ max = U64(10)) => result = Ok

\* C18 witness: validate_range(10, 0, 10, "test") has returned a Validation
\* error that reads "test: value 10 is not in range [0, 10)".
ValidateRangeCorrectWitness ==
    \E n \in CallsOf("validate_range") :
        /\ calls[n].args = <<U64(10), U64Zero, U64(10), "test">>
        /\ calls[n].result.kind = "Validation"
        /\ calls[n].result.message
              = <<"test", ": value ", <<"1", "0">>, " is not in range [", <<"0">>, ", ",
                  <<"1", "0">>, ")">>

\* The indices (from 0, as in the source) at which a key is below the one before.
Descents(keys) == {i \in 1..(Len(keys) - 1) : Below(keys[i + 1], keys[i])}

\* C19: validate_sorted(keys, msg) is Ok exactly when keys is non-decreasing
\* (equal neighbours, the empty slice and one element included); otherwise it is
\* a Validation error that reports the smallest index i with keys[i] < keys[i-1].
ValidateSortedCorrect ==
    \A n \in CallsOf("validate_sorted") :
        LET keys == calls[n].args[1]
            result == calls[n].result
        IN  /\ result.kind = "Ok" <=> NonDecreasing(keys)
            /\ Len(keys) <= 1 => result = Ok
            /\ result.kind # "Ok" =>
                  /\ result.kind = "Validation"
                  /\ result.message[1] = calls[n].args[2]
                  /\ \E i \in Descents(keys) :
                        /\ \A j \in Descents(keys) : i <= j
                        /\ DecimalValue(result.message[3]) = U64(i)

\* C19 witness: validate_sorted([3, 2, 1], "test") has returned a Validation
\* error reporting index 1, the first of its two descents.
ValidateSortedCorrectWitness ==
    \E n \in CallsOf("validate_sorted") :
        /\ calls[n].args[1] = <<U64(3), U64(2), U64(1)>>
        /\ Descents(calls[n].args[1]) = {1, 2}
        /\ calls[n].result = Validation(<<"test", ": keys are not sorted at index ",
                                          <<"1">>>>)

\* C20: validate_equal_length(a, b, msg) is Ok exactly when the two slices have
\* the same length (both empty included); otherwise it is a Validation error
\* whose message contains both lengths; the slices are as they were.
ValidateEqualLengthCorrect ==
    \A n \in CallsOf("validate_equal_length") :
        LET a == calls[n].args[1]
            b == calls[n].args[2]
            result == calls[n].result
        IN  /\ result.kind = "Ok" <=> Len(a) = Len(b)
            /\ (a = <<>> /\ b = <<>>) => result = Ok
            /\ result.kind # "Ok" =>
                  /\ result.kind = "Validation"
                  /\ result.message[1] = calls[n].args[3]
                  /\ DecimalValue(result.message[3]) = U64(Len(a))
                  /\ DecimalValue(result.message[5]) = U64(Len(b))
            /\ calls[n].after = calls[n].args

\* C20 witness: validate_equal_length of a slice of one element and a slice of
\* two has returned a Validation error that reads "lengths do not match (1 vs 2)".
ValidateEqualLengthCorrectWitness ==
    \E n \in CallsOf("validate_equal_length") :
        /\ Len(calls[n].args[1]) = 1
        /\ Len(calls[n].args[2]) = 2
        /\ calls[n].result = Validation(<<"test", ": lengths do not match (", <<"1">>,
                                          " vs ", <<"2">>, ")">>)
        /\ calls[n].after = calls[n].args

(***************************************************************************)
(* Properties of the hex helpers                                           *)
(***************************************************************************)
\* The characters '0'..'9', 'a'..'f' and 'A'..'F', and the value of a digit.
LowerHexCharacters == (48..57) \cup (97..102)
HexCharacters == LowerHexCharacters \cup (65..70)
HexValue(c) == IF c <= 57 THEN c - 48 ELSE IF c <= 70 THEN c - 55 ELSE c - 87

\* C21: bytes_to_hex(b) is a lower-case string of length 2 * len(b), and
\* hex_to_bytes of it is Ok(b); hex_to_bytes is Err for every string of odd
\* length (str::len).
HexRoundTrip ==
    /\ \A n \in CallsOf("bytes_to_hex") :
          LET bytes == calls[n].args[1]
              hex == calls[n].result
          IN  /\ Len(hex) = 2 * Len(bytes)
              /\ \A k \in DOMAIN hex : hex[k] \in LowerHexCharacters
              /\ bytes = <<18, 52, 171>> => hex = <<49, 50, 51, 52, 97, 98>>
              /\ (n + 1 \in CallsOf("hex_to_bytes") /\ calls[n + 1].args[1] = hex)
                    => calls[n + 1].result = HexOk(bytes)
    /\ \A n \in CallsOf("hex_to_bytes") :
          Len(calls[n].args[1]) % 2 = 1 => calls[n].result.kind = "Err"

\* C21 witness: the bytes [0x12, 0x34, 0xab] have been written as "1234ab" and
\* read back.
HexRoundTripWitness ==
    /\ Len(calls) = 2
    /\ calls[1].op = "bytes_to_hex"
    /\ calls[1].args[1] = <<18, 52, 171>>
    /\ calls[2].op = "hex_to_bytes"
    /\ calls[2].args[1] = <<49, 50, 51, 52, 97, 98>>
    /\ calls[2].result = HexOk(<<18, 52, 171>>)

\* The positions (from 0) of the pairs of a string that hold a character that
\* is no hexadecimal digit.
BadPairs(hex) ==
    {i \in 0..(Len(hex) - 2) :
        i % 2 = 0 /\ ~(hex[i + 1] \in HexCharacters /\ hex[i + 2] \in HexCharacters)}

\* C30: hex_to_bytes(s) is Ok only when s has even length and every character
\* is a hexadecimal digit, with byte k the value of characters 2k and 2k + 1;
\* for every other string it is Err (for a bad character, naming the even
\* position of the first bad pair), never an abort.
HexToBytesStrict ==
    \A n \in CallsOf("hex_to_bytes") :
        LET hex == calls[n].args[1]
            result == calls[n].result
            wellFormed == Len(hex) % 2 = 0 /\ \A k \in DOMAIN hex : hex[k] \in HexCharacters
        IN  /\ result.kind = "Ok" <=> wellFormed
            /\ result.kind = "Ok" =>
                  /\ Len(result.bytes) * 2 = Len(hex)
                  /\ \A k \in DOMAIN result.bytes :
                        result.bytes[k]
                            = 16 * HexValue(hex[2 * k - 1]) + HexValue(hex[2 * k])
            /\ ~wellFormed => result.kind = "Err"
            /\ (Len(hex) % 2 = 0 /\ ~wellFormed) =>
                  \E i \in BadPairs(hex) :
                      /\ \A j \in BadPairs(hex) : i <= j
                      /\ result.message
                            = <<"Invalid hex character at position ", Display(U64(i))>>

(***************************************************************************)
(* Properties of the gates' cell references                                *)
(***************************************************************************)
GateFailure(gate, row) == [kind |-> "ConstraintNotSatisfied", gate |-> gate, row |-> row]
LookupFailure(lookup, row) == [kind |-> "Lookup", gate |-> lookup, row |-> row]

DocumentedRowLayout ==
    \A k \in RegionsNamed("decompose 64bit") :
        LET start == regions[k].start
        IN  /\ \A c \in regions[k].assigned : c[2] = start + 1
            /\ \A i \in 0..7 : regions[k].cell[i] = <<chunk_columns[i], start + 1>>
            /\ <<x_column, start + 1>> \in regions[k].assigned
            /\ Enabled(selector, start + 1)
            /\ Enabled(decomposition_selector, start + 1)
            /\ ~Enabled(selector, start)

(***************************************************************************)
(* Properties of the accumulator rule                                      *)
(***************************************************************************)
\* The rows of the group of row i up to row i.
GroupRowsUpTo(i) == {j \in RowsOfKey(aggregation.group_keys[i]) : j <= i}

\* The accumulator that is reset to an identity at a boundary row and updated
\* only on the other rows.
RECURSIVE IdentityAccumulator(_)
IdentityAccumulator(i) ==
    IF aggregation.boundaries[i] = FrOne
    THEN ResetAccumulator_identity(aggregation.agg_type, aggregation.values[i])
    ELSE UpdateAccumulator(aggregation.agg_type, IdentityAccumulator(i - 1),
                           aggregation.values[i])

\* C25 as stated: the accumulator reset to an identity (0 for SUM and COUNT,
\* the current value for MAX and MIN) at each boundary and updated only on
\* non-boundary rows has, at the last row of every group, the group's SUM,
\* COUNT, MAX or MIN.
IdentityAccumulatorCorrect ==
    aggregation.assigned =>
        \A i \in DOMAIN aggregation.group_keys :
            (i = Len(aggregation.group_keys) \/ aggregation.boundaries[i + 1] = FrOne)
                => IdentityAccumulator(i)
                      = FrSmall(Aggregate(aggregation.agg_type,
                                          RowsOfKey(aggregation.group_keys[i])))

\* C25 as amended: the accumulator reset at each boundary row to the row's own
\* value (1 for COUNT) and updated on the other rows holds, at every row, the
\* aggregate of its group's rows so far, and so at the last row of every group
\* the group's SUM, COUNT, MAX or MIN (SUM 10, 30, 30, 70, 120, 60, 130 and
\* COUNT 1, 2, 1, 2, 3, 1, 2 for keys [1,1,2,2,2,3,3], values [10,...,70]).
AccumulatorRuleCorrect ==
    aggregation.assigned =>
        LET acc == [i \in DOMAIN aggregation.accumulators |->
                       aggregation.accumulators[i][1]]
        IN  /\ \A i \in DOMAIN aggregation.group_keys :
                  aggregation.accumulators[i]
                      = FrSmall(Aggregate(aggregation.agg_type, GroupRowsUpTo(i)))
            /\ (/\ aggregation.group_keys
                      = <<U64(1), U64(1), U64(2), U64(2), U64(2), U64(3), U64(3)>>
                /\ aggregation.values = [i \in 1..7 |-> U64(10 * i)])
                  => /\ aggregation.agg_type = "sum"
                           => acc = <<10, 30, 30, 70, 120, 60, 130>>
                     /\ aggregation.agg_type = "count" => acc = <<1, 2, 1, 2, 3, 1, 2>>

\* C25 witness: the COUNT over keys [1,1,2,2,2,3,3] has been accumulated as
\* 1, 2, 1, 2, 3, 1, 2, with results [2,3,2].
AccumulatorRuleCorrectWitness ==
    /\ aggregation.assigned
    /\ aggregation.group_keys = <<U64(1), U64(1), U64(2), U64(2), U64(2), U64(3), U64(3)>>
    /\ aggregation.agg_type = "count"
    /\ aggregation.accumulators = [i \in 1..7 |-> FrSmall(<<1, 2, 1, 2, 3, 1, 2>>[i])]
    /\ ResultNumbers = <<2, 3, 2>>

(***************************************************************************)
(* Properties of the operations step by step                               *)
(***************************************************************************)
Assigned(c) == c \in DOMAIN cells

\* Everything decompose_64bit assigns in a region from row start on.
DecomposeComplete(start) ==
    /\ \A i \in 0..7 : Assigned(<<chunk_columns[i], start + i>>)
                          /\ Enabled(selector, start + i)
    /\ Assigned(<<x_column, start + 8>>)
    /\ Enabled(decomposition_selector, start + 8)

\* Everything check_less_than assigns in a region from row start on.
LessThanComplete(start) ==
    /\ Enabled(less_than_selector, start)
    /\ Assigned(<<x_column, start>>)
    /\ Assigned(<<threshold_column, start>>)
    /\ Assigned(<<u_column, start>>)
    /\ Assigned(<<check_column, start>>)
    /\ Assigned(<<check_column, start + 1>>)
    /\ Below(u, U64(256)) => Enabled(diff_lookup_selector, start + 1)

\* C26: decompose_64bit returns its eight limb cells, and check_less_than its
\* check cell, only after everything of the region has been assigned; when a
\* step is refused the operation stops there (that step and the later ones
\* have no effect), returns the error and no cell, and the synthesis ends.
NoPartialAssignment ==
    /\ \A k \in DOMAIN regions :
          LET r == regions[k]
          IN  /\ r.result = "Ok" =>
                    /\ r.name = "decompose 64bit" =>
                          /\ DecomposeComplete(r.start)
                          /\ r.cell = [i \in 0..7 |-> <<chunk_columns[i], r.start + i>>]
                    /\ r.name = "check x < t" =>
                          /\ LessThanComplete(r.start)
                          /\ r.cell = <<<<check_column, r.start>>>>
              /\ r.result # "Ok" =>
                    /\ r.cell = <<>>
                    /\ k = Len(regions)
                    /\ phase = "failed"
                    /\ running.name = "none"
                    /\ ~(r.name = "decompose 64bit" /\ DecomposeComplete(r.start))
                    /\ ~(r.name = "check x < t" /\ LessThanComplete(r.start))
    /\ \A c \in DOMAIN cells : c[2] < running.usable
    /\ \A e \in enabled : e[2] < running.usable
    /\ running.name # "none" => \A k \in DOMAIN regions : regions[k].start # running.start

\* C26 witness: a decomposition has returned its cells, and the less-than check
\* after it was refused at its diff cell (row 10 of a prover with 10 usable
\* rows) and returned no cell.
NoPartialAssignmentWitness ==
    /\ Len(regions) = 2
    /\ regions[1].name = "decompose 64bit" /\ regions[1].result = "Ok"
    /\ regions[2].name = "check x < t" /\ regions[2].result = "NotEnoughRowsAvailable"
    /\ regions[2].cell = <<>>
    /\ regions[2].step = 6
    /\ Assigned(<<check_column, regions[2].start>>)
    /\ ~Assigned(<<check_column, regions[2].start + 1>>)

\* The steps of the running closure that are still to come and assign a cell.
StepsToCome ==
    IF running.name = "none" THEN {}
    ELSE {n \in running.step..Len(running.steps) : running.steps[n].kind # "selector"}

\* C27: after any sequence of decompose_64bit and check_less_than calls no
\* (column, row) cell is assigned twice: a step never writes a cell that is
\* already assigned, the cells of different regions are disjoint, check (row 0)
\* and diff (row 1) of the shared column are two cells, and the x column is
\* written at most once per row.
AssignedAtMostOnce ==
    /\ \A n \in StepsToCome :
          /\ ~Assigned(running.steps[n].cell)
          /\ \A o \in StepsToCome : o # n => running.steps[o].cell # running.steps[n].cell
    /\ \A k \in DOMAIN regions : \A j \in DOMAIN regions :
          j # k => regions[j].assigned \cap regions[k].assigned = {}
    /\ DOMAIN cells = UNION {regions[k].assigned : k \in DOMAIN regions}
                         \cup {running.steps[n].cell :
                                  n \in {o \in 1..(running.step - 1) :
                                            running.steps[o].kind # "selector"}}
    /\ \A k \in RegionsNamed("check x < t") :
          regions[k].result = "Ok" =>
              /\ <<check_column, regions[k].start>> \in regions[k].assigned
              /\ <<diff_column, regions[k].start + 1>> \in regions[k].assigned
              /\ Cardinality(regions[k].assigned) = 5
    /\ \A k \in RegionsNamed("decompose 64bit") :
          regions[k].result = "Ok" => Cardinality(regions[k].assigned) = 9
    /\ \A row \in 0..running.usable :
          Cardinality({k \in DOMAIN regions : <<x_column, row>> \in regions[k].assigned})
              <= 1

\* C27 witness: a less-than check has been assigned right after a
\* decomposition, its x in the x column one row below the decomposition's.
AssignedAtMostOnceWitness ==
    /\ Len(regions) = 2
    /\ regions[1].name = "decompose 64bit" /\ regions[1].result = "Ok"
    /\ regions[2].name = "check x < t" /\ regions[2].result = "Ok"
    /\ <<x_column, 8>> \in regions[1].assigned
    /\ <<x_column, 9>> \in regions[2].assigned

RangeCheckSelectors ==
    {selector, decomposition_selector, less_than_selector, diff_lookup_selector}

RegionRows(k) == regions[k].start..(regions[k].start + regions[k].rows - 1)

\* The selectors a region enables, by the row they are enabled on.
EnabledBy(k) ==
    IF regions[k].name = "decompose 64bit"
    THEN {<<selector, regions[k].start + i>> : i \in 0..7}
             \cup {<<decomposition_selector, regions[k].start + 8>>}
    ELSE {<<less_than_selector, regions[k].start>>}
             \cup (IF U64Lt(u, U64(256))
                   THEN {<<diff_lookup_selector, regions[k].start + 1>>} ELSE {})

\* The cells the constraints of a selector read on a row where it is enabled.
ConstraintQueries(sel, row) ==
    IF sel = selector THEN {<<chunk_columns[i], row>> : i \in 0..7}
    ELSE IF sel = decomposition_selector THEN DecompositionQueries(row)
    ELSE IF sel = less_than_selector THEN LessThanQueries(row)
    ELSE {<<diff_column, row>>}

RowCount(name) == IF name = "decompose 64bit" THEN 9 ELSE 2

\* The first row of region k of the first run, read off the cells it returned:
\* chunk 0 of a decomposition and the check cell of a less-than check are in
\* the region's row 0.
PreviousStart(k) ==
    LET returned == previous.results[k][2]
    IN  IF previous.operations[1][k] = "decompose 64bit"
        THEN returned[0][2] ELSE returned[1][2]

\* The cell values, the selectors and the failures of the rows
\* start..start + rowCount - 1, by their offset from start.
RelativeCells(assignment, start, rowCount) ==
    {<<c[1], c[2] - start, assignment[c]>> :
        c \in {d \in DOMAIN assignment : d[2] \in start..(start + rowCount - 1)}}

RelativeSelectors(selectors, start, rowCount) ==
    {<<e[1], e[2] - start>> :
        e \in {d \in selectors : d[2] \in start..(start + rowCount - 1)}}

RelativeFailures(fails, start, rowCount) ==
    {<<f.kind, f.gate, f.row - start>> :
        f \in {g \in fails : g.row \in start..(start + rowCount - 1)}}

\* The second run has made the two calls of the first in the opposite order.
OppositeOrder ==
    /\ previous.ran
    /\ Len(regions) = 2
    /\ regions[1].name # regions[2].name
    /\ previous.operations = <<<<regions[2].name, regions[1].name>>, tableLoaded>>

\* C29: decompose_64bit then check_less_than, and check_less_than then
\* decompose_64bit, on the same value, threshold and u give each region the same
\* cell values and selectors relative to its first row, and verification the
\* same failures relative to those rows, so the same accept/reject result;
\* only the first rows differ.
RegionOrderIndependent ==
    OppositeOrder =>
        \A k \in 1..2 :
            LET j == 3 - k
                rowCount == RowCount(regions[k].name)
            IN  /\ regions[k].result = previous.results[j][1]
                /\ RelativeCells(cells, regions[k].start, rowCount)
                      = RelativeCells(previous.cells, PreviousStart(j), rowCount)
                /\ RelativeSelectors(enabled, regions[k].start, rowCount)
                      = RelativeSelectors(previous.enabled, PreviousStart(j), rowCount)
                /\ regions[k].start # PreviousStart(j)
                /\ phase = "verified" =>
                      /\ RelativeFailures(failures, regions[k].start, rowCount)
                            = RelativeFailures(previous.failures, PreviousStart(j), rowCount)
                      /\ (failures = {}) = (previous.failures = {})

\* C29 witness: both orders have been verified and rejected, the decomposition
\* at row 0 in the first run and at row 2, after the less-than check, in the
\* second.
RegionOrderIndependentWitness ==
    /\ OppositeOrder
    /\ phase = "verified"
    /\ regions[2].name = "decompose 64bit"
    /\ regions[2].start = 2
    /\ PreviousStart(1) = 0
    /\ Cardinality(RelativeCells(cells, 2, 9)) = 9
    /\ failures # {}

=============================================================================
